---- MODULE Spec2Model ----
(***************************************************************************)
(* A model of src/main.py of ai-meeting-notes: the AI enrichment pipeline  *)
(* (ingestion of audio, transcription, summary and action-item            *)
(* extraction), the on-demand AI endpoints and the calendar sync merger.   *)
(*                                                                         *)
(* Text is modelled as a sequence of one-character strings, so that        *)
(* str.strip(), the "in" substring test and truthiness are computed, not   *)
(* assumed.  Python's None is the one-token sequence None, which no text   *)
(* contains.  A model reply handed to the action-item extractor is a       *)
(* sequence of lexical tokens (brackets, commas, prose words and whole     *)
(* JSON objects or numbers), which is the granularity at which the         *)
(* first-'[' / last-']' scan and json.loads decide.                        *)
(***************************************************************************)
EXTENDS Integers, Sequences, FiniteSets, TLC

VARIABLES
    defaultKey,   \* LLM_API_KEY, the process-wide default credential
    xraw,         \* extractor harness: the text the chat backend answers with
    xreply,       \* extractor harness: what the chat backend does with the call
    xkey,         \* extractor harness: the per-call credential (X-LLM-API-Key)
    xres,         \* extractor harness: what extract_action_items_via_llama gave its caller
    xpc,          \* extractor harness: "call" before the call, "done" after it
    meetings,     \* the meetings table: id -> row, for the ids that have a row
    nextId,       \* how many meeting ids (uuid4) have been drawn
    audio,        \* ids whose <id>.wav exists in AUDIO_DIR
    ing,          \* the create_meeting_with_audio request in progress and its two tasks
    od,           \* the on-demand AI request suspended at its chat call
    resp,         \* the last response sent to a client
    events,       \* the external calendar: event id -> event
    syncs,        \* the sync_meeting_calendar requests, by worker thread
    folders       \* the folders table, in creation order; a deleted row keeps its place

extVars == <<xraw, xreply, xkey, xres, xpc>>
appVars == <<meetings, nextId, audio, ing, od, resp>>
calVars == <<events, syncs>>
vars == <<defaultKey, extVars, appVars, calVars, folders>>

-----------------------------------------------------------------------------
(* Text helpers *)

None == <<"NULL">>

\* Python truthiness of an Optional[str]: None and "" are falsy.
Truthy(s) == s # None /\ s # <<>>

RECURSIVE LStrip(_)
LStrip(s) == IF s # <<>> /\ Head(s) = " " THEN LStrip(Tail(s)) ELSE s

RECURSIVE RStrip(_)
RStrip(s) ==
    IF s # <<>> /\ s[Len(s)] = " " THEN RStrip(SubSeq(s, 1, Len(s) - 1)) ELSE s

\* str.strip()
Strip(s) == RStrip(LStrip(s))

\* All sequences over S of length at most n.
SeqsUpTo(S, n) == UNION {[1..k -> S] : k \in 0..n}

-----------------------------------------------------------------------------
(* Chat Gateway: ollama_chat *)

\* What the backend does with one outbound chat call.
ChatFailKinds == {"transport", "status", "notjson", "nochoices"}

ChatReply(kind, text) == [kind |-> kind, text |-> text]

\* The credential both gateways resolve: (api_key or LLM_API_KEY or "").strip()
ResolveKey(api_key) ==
    Strip(IF Truthy(api_key) THEN api_key
          ELSE IF Truthy(defaultKey) THEN defaultKey
          ELSE <<>>)

Raised(exc, status, sent) ==
    [exc |-> exc, status |-> status, sent |-> sent, text |-> <<>>]

\* ollama_chat(prompt, api_key): exc is "none" when it returns text,
\* "HTTPException" (with its status) or "Exception" (resp.json() or .get()
\* failing on a 200 body that is not the expected JSON object) when it raises;
\* sent tells whether an outbound call was made.
ollama_chat(api_key, reply) ==
    IF ResolveKey(api_key) = <<>> THEN Raised("HTTPException", 400, FALSE)
    ELSE CASE reply.kind = "transport" -> Raised("HTTPException", 500, TRUE)
           [] reply.kind = "status"    -> Raised("HTTPException", 500, TRUE)
           [] reply.kind = "notjson"   -> Raised("Exception", 500, TRUE)
           [] reply.kind = "nochoices" -> Raised("HTTPException", 500, TRUE)
           [] OTHER -> [exc |-> "none", status |-> 200, sent |-> TRUE,
                        text |-> reply.text]

-----------------------------------------------------------------------------
(* Action-Item Extractor: extract_action_items_via_llama *)

\* Tokens of a model reply.  "p" is a prose word (no JSON value); "n" is a
\* JSON number; the o* tokens are whole JSON objects:
\*   oA  {"task": " d"}                    (task needs trimming, no status)
\*   oD  {"task": "g", "status": "done"}
\*   oB  {"task": " ", "status": ""}       (blank task)
\*   oN  {"task": 7}                       (task is not a string)
ObjTokens == {"oA", "oD", "oB", "oN"}
ElemTokens == ObjTokens \cup {"n"}
RawTokens == {"[", "]", ",", "p"} \cup ElemTokens

\* obj.get("task") of an object token; the task of oN is the number 7.
TaskIsNumber(tok) == tok = "oN"
TaskOf(tok) ==
    CASE tok = "oA" -> <<" ", "d">>
      [] tok = "oD" -> <<"g">>
      [] tok = "oB" -> <<" ">>
      [] OTHER -> None

\* obj.get("status")
StatusOf(tok) ==
    CASE tok = "oD" -> <<"d", "o", "n", "e">>
      [] tok = "oB" -> <<>>
      [] OTHER -> None

OPEN == <<"o", "p", "e", "n">>

\* raw.find(c), with 0 for Python's -1 and positions counted from 1.
Find(s, c) ==
    IF \E i \in 1..Len(s) : s[i] = c
    THEN CHOOSE i \in 1..Len(s) : s[i] = c /\ \A j \in 1..(i - 1) : s[j] # c
    ELSE 0

\* raw.rfind(c)
RFind(s, c) ==
    IF \E i \in 1..Len(s) : s[i] = c
    THEN CHOOSE i \in 1..Len(s) : s[i] = c /\ \A j \in (i + 1)..Len(s) : s[j] # c
    ELSE 0

\* A mutant of ScanArray: the scan stops at the first "]" (find for rfind).
ScanArrayFirstClose(raw) ==
    LET start == Find(raw, "[")
        end == Find(raw, "]")
    IN  IF start # 0 /\ end # 0 /\ end > start THEN SubSeq(raw, start, end) ELSE raw

\* raw_json: the slice from the first "[" to the last "]", else the whole text.
ScanArray(raw) ==
    LET start == Find(raw, "[")
        end == RFind(raw, "]")
    IN  IF start # 0 /\ end # 0 /\ end > start THEN SubSeq(raw, start, end) ELSE raw

\* Nesting depth in front of position i: "[" seen minus "]" seen.
Depth(s, i) ==
    Cardinality({j \in 1..(i - 1) : s[j] = "["})
        - Cardinality({j \in 1..(i - 1) : s[j] = "]"})

\* The text between the top-level commas of the inside of an array.
RECURSIVE SplitTop(_)
SplitTop(s) ==
    LET commas == {i \in 1..Len(s) : s[i] = "," /\ Depth(s, i) = 0}
    IN  IF commas = {} THEN <<s>>
        ELSE LET i == CHOOSE c \in commas : \A d \in commas : c <= d
             IN  <<SubSeq(s, 1, i - 1)>> \o SplitTop(SubSeq(s, i + 1, Len(s)))

\* Whether json.loads accepts the text, and whether it yields a list.
RECURSIVE IsJsonValue(_)
IsJsonValue(s) ==
    \/ Len(s) = 1 /\ s[1] \in ElemTokens
    \/ /\ Len(s) >= 2
       /\ s[1] = "["
       /\ s[Len(s)] = "]"
       /\ LET inner == SubSeq(s, 2, Len(s) - 1)
              segs == SplitTop(inner)
          IN  inner = <<>> \/ \A k \in 1..Len(segs) : IsJsonValue(segs[k])

IsJsonArray(s) == IsJsonValue(s) /\ Len(s) >= 2

\* The elements of a parsed list, each as its text.
ArrayElems(s) ==
    LET inner == SubSeq(s, 2, Len(s) - 1)
    IN  IF inner = <<>> THEN <<>> ELSE SplitTop(inner)

\* isinstance(obj, dict)
IsDict(elem) == Len(elem) = 1 /\ elem[1] \in ObjTokens

\* (obj.get("task") or "").strip(); a number has no strip() and raises.
TaskText(tok) == IF Truthy(TaskOf(tok)) THEN Strip(TaskOf(tok)) ELSE <<>>

\* ActionItem(task=task, ..., status=obj.get("status") or "open")
NewItem(tok) ==
    [task |-> TaskText(tok),
     status |-> IF Truthy(StatusOf(tok)) THEN StatusOf(tok) ELSE OPEN]

\* A mutant of KeepsItem: entries with a blank task are kept.
KeepsItemAlways(elem) == IsDict(elem)

\* The loop's two "continue" tests: a dict with a non-blank task.
KeepsItem(elem) == IsDict(elem) /\ TaskText(elem[1]) # <<>>

RECURSIVE BuildItems(_)
BuildItems(elems) ==
    IF elems = <<>> THEN <<>>
    ELSE (IF KeepsItem(Head(elems)) THEN <<NewItem(Head(elems)[1])>> ELSE <<>>)
             \o BuildItems(Tail(elems))

\* The body of the try block: whether it raises (json.loads on text that is
\* no JSON value, .strip() on a task that is a number), and the items it
\* has when it does not.
ParseItems(raw) ==
    LET raw_json == ScanArray(raw)
    IN  IF ~IsJsonValue(raw_json) THEN [raised |-> TRUE, items |-> <<>>]
        ELSE IF ~IsJsonArray(raw_json) THEN [raised |-> FALSE, items |-> <<>>]
        ELSE LET elems == ArrayElems(raw_json)
             IN  IF \E k \in 1..Len(elems) :
                        IsDict(elems[k]) /\ TaskIsNumber(elems[k][1])
                 THEN [raised |-> TRUE, items |-> <<>>]
                 ELSE [raised |-> FALSE, items |-> BuildItems(elems)]

\* extract_action_items_via_llama(transcript, api_key): the chat call is made
\* outside the try block, so what it raises reaches the caller; whatever the
\* try block raises becomes [].  raw_json is the function's local of that name.
extract_action_items_via_llama(api_key, reply) ==
    LET chat == ollama_chat(api_key, reply)
    IN  IF chat.exc # "none"
        THEN [exc |-> chat.exc, status |-> chat.status, sent |-> chat.sent,
              items |-> <<>>, raw_json |-> <<>>]
        ELSE [exc |-> "none", status |-> 200, sent |-> TRUE,
              items |-> IF ParseItems(chat.text).raised THEN <<>>
                        ELSE ParseItems(chat.text).items,
              raw_json |-> ScanArray(chat.text)]

-----------------------------------------------------------------------------
(* The inputs and the result of the extractor taken on its own *)

\* Longest model reply, in tokens, handed to the action-item extractor.
MaxRawLen == 5

Keys == {None, <<"k">>}
DefaultKeys == {None, <<"k">>}

AllRaws == SeqsUpTo(RawTokens, MaxRawLen)

NoRes ==
    [exc |-> "none", status |-> 0, sent |-> FALSE, items |-> <<>>, raw_json |-> <<>>]

ExtIdle ==
    /\ xraw = <<>>
    /\ xreply = "content"
    /\ xkey = None
    /\ xres = NoRes
    /\ xpc = "off"


-----------------------------------------------------------------------------
(* Users and authentication: _get_current_user_from_header *)

\* Total meeting ids drawn in one behaviour.
MaxMeetings == 1

Users == {"u1", "u2"}

\* users.api_token
ApiToken(u) == IF u = "u1" THEN "t1" ELSE "t2"

\* parts[0].lower()
Lower(w) == CASE w = "Bearer" -> "bearer" [] w = "Basic" -> "basic" [] OTHER -> w

Unauthorized == "401"

\* The user the header names, or Unauthorized where the code raises 401.
CurrentUser(authorization) ==
    IF ~Truthy(authorization) THEN Unauthorized
    ELSE IF Len(authorization) # 2 \/ Lower(authorization[1]) # "bearer"
    THEN Unauthorized
    ELSE IF \E u \in Users : ApiToken(u) = authorization[2]
    THEN CHOOSE u \in Users : ApiToken(u) = authorization[2]
    ELSE Unauthorized

-----------------------------------------------------------------------------
(* Meetings, action items and responses *)

\* item.status or "open"
StatusOrOpen(status) == IF Truthy(status) THEN status ELSE OPEN

\* The list comprehension every handler passes to json.dumps before it stores
\* action items.  owner and due_date are copied as given and are left out.
DumpItems(items) ==
    [i \in 1..Len(items) |->
        [task |-> items[i].task, status |-> StatusOrOpen(items[i].status)]]

\* A mutant of NewMeeting: a row without a transcript is marked "failed".
NewMeetingFailedStatus(id, user, form, transcript, summary, action_items) ==
    [owner |-> user, title |-> form.title, folder_id |-> form.folder_id,
     created_at |-> id, start_time |-> form.start_time, end_time |-> form.end_time,
     status |-> IF transcript = <<>> THEN "failed" ELSE "completed",
     transcript |-> transcript, summary |-> summary, audio_path |-> id,
     calendar_event_id |-> form.calendar_event_id,
     action_items |-> DumpItems(action_items), is_favorite |-> FALSE]

\* Meeting(...) as create_meeting_with_audio builds it; created_at is the
\* order of creation.
NewMeeting(id, user, form, transcript, summary, action_items) ==
    [owner |-> user,
     title |-> form.title,
     folder_id |-> form.folder_id,
     created_at |-> id,
     start_time |-> form.start_time,
     end_time |-> form.end_time,
     status |-> "completed",
     transcript |-> transcript,
     summary |-> summary,
     audio_path |-> id,
     calendar_event_id |-> form.calendar_event_id,
     action_items |-> DumpItems(action_items),
     is_favorite |-> FALSE]

\* db.query(Meeting).filter(Meeting.id == meeting_id,
\*                          Meeting.owner_id == current_user.id).first()
Owned(id, user) == id \in DOMAIN meetings /\ meetings[id].owner = user

\* A response: the handler, the meeting id of the path (0 where there is none),
\* the HTTP status, which raise or branch produced it, the ollama_chat calls the
\* request made, how the chat call of an on-demand request ended ("none" when
\* there was no call), and the body where it is not meeting_to_dict of the
\* stored row (which the meetings table already holds).
Response(op, m, status, detail, calls, chat, body) ==
    [op |-> op, m |-> m, status |-> status, detail |-> detail, calls |-> calls,
     chat |-> chat, body |-> body]

NoBody == <<>>
NoResp == Response("none", 0, 0, "", 0, "none", NoBody)

\* The status FastAPI answers with when a handler raises.
StatusOfRaise(r) == IF r.exc = "HTTPException" THEN r.status ELSE 500

-----------------------------------------------------------------------------
(* Transcription Gateway: transcribe_audio *)

TranscribeFailKinds == {"transport", "status"}

\* transcribe_audio(file_path, api_key): resp.text, or the HTTPException raised.
transcribe_audio(api_key, reply) ==
    IF ResolveKey(api_key) = <<>> THEN Raised("HTTPException", 400, FALSE)
    ELSE CASE reply.kind = "transport" -> Raised("HTTPException", 500, TRUE)
           [] reply.kind = "status"    -> Raised("HTTPException", 500, TRUE)
           [] OTHER -> [exc |-> "none", status |-> 200, sent |-> TRUE,
                        text |-> reply.text]

-----------------------------------------------------------------------------
(* Ingestion: create_meeting_with_audio *)

\* The form fields of an upload that the handler copies onto the row.
NoTime == None
Form(title, folder_id, start_time, end_time, calendar_event_id) ==
    [title |-> title, folder_id |-> folder_id, start_time |-> start_time,
     end_time |-> end_time, calendar_event_id |-> calendar_event_id]

\* The upload in progress: where the handler is (pc), its inputs and locals,
\* how the transcription call ended (trans), the two tasks asyncio.gather runs
\* (sumSt, extSt: "pending", "ok" or "raised"; sumRes, extRes: what they
\* returned; extRaw: the text the extractor's chat call returned), the
\* ollama_chat calls made and the status of the response once sent.
IngIdle ==
    [pc |-> "idle", id |-> 0, auth |-> None, key |-> None,
     form |-> Form(<<>>, None, NoTime, NoTime, None),
     trans |-> "none", transcript |-> <<>>, summary |-> None, action_items |-> <<>>,
     sumSt |-> "none", sumRes |-> None,
     extSt |-> "none", extRes |-> <<>>, extRaw |-> <<>>,
     chatCalls |-> 0, status |-> 0]

\* No task of an earlier upload is still running.
TasksSettled == ing.sumSt # "pending" /\ ing.extSt # "pending"

\* Lines 998-1002: a fresh id, then save_upload_to_wav.  When the write fails
\* the request ends there with a 500.
IngestStart(authorization, key, form, stored) ==
    /\ ing.pc \in {"idle", "done"}
    /\ TasksSettled
    /\ nextId < MaxMeetings
    /\ IF stored
       THEN /\ nextId' = nextId + 1
            /\ audio' = audio \cup {nextId + 1}
            /\ ing' = [IngIdle EXCEPT !.pc = "transcribing", !.id = nextId + 1,
                                      !.auth = authorization, !.key = key,
                                      !.form = form]
            /\ UNCHANGED resp
       ELSE /\ resp' = Response("ingest", 0, 500, "store", 0, "none", NoBody)
            /\ UNCHANGED <<nextId, audio, ing>>
    /\ UNCHANGED <<meetings, od>>

\* A mutant of TranscribeFailed: the exception is not caught and ends the
\* request with its status.
TranscribeFailedUncaught(r) ==
    [ing EXCEPT !.pc = "done", !.trans = r.exc, !.status = r.status]

\* A mutant of TranscribeFailed: the summary and the action items are asked
\* for although there is no transcript.
TranscribeFailedStillAsks(r) ==
    [ing EXCEPT !.pc = "gather", !.trans = r.exc, !.transcript = <<>>,
                !.sumSt = "pending", !.extSt = "pending", !.chatCalls = 2]

\* Lines 1022-1030: both except clauses around the transcription call.
TranscribeFailed(r) ==
    [ing EXCEPT !.pc = "persist", !.trans = r.exc,
                !.transcript = <<>>, !.summary = None, !.action_items = <<>>]

\* Line 1009 returns or raises.  On success line 1011 starts both tasks, and
\* each runs up to its outbound chat call.
TranscribeDone(reply) ==
    /\ ing.pc = "transcribing"
    /\ LET r == transcribe_audio(ing.key, reply)
       IN  ing' = IF r.exc # "none" THEN TranscribeFailed(r)
                  ELSE [ing EXCEPT !.pc = "gather", !.trans = "ok",
                                   !.transcript = r.text,
                                   !.sumSt = "pending", !.extSt = "pending",
                                   !.chatCalls = 2]
    /\ UNCHANGED <<meetings, nextId, audio, od, resp>>

\* A mutant of GatherFailed: items that were already extracted survive.
GatherFailedKeepsItems(req) ==
    [req EXCEPT !.pc = "persist", !.summary = None,
                !.action_items = IF req.extSt = "ok" THEN req.extRes ELSE <<>>]

\* Lines 1015-1021: asyncio.gather hands the first exception of either task to
\* the handler, which drops both results.
GatherFailed(req) ==
    [req EXCEPT !.pc = "persist", !.summary = None, !.action_items = <<>>]

\* Line 1011: both tasks returned; summary, action_items = their results.
GatherJoined(req) ==
    [req EXCEPT !.pc = "persist", !.summary = req.sumRes, !.action_items = req.extRes]

\* A mutant of AfterTask: only a failed summary drops the pair; a failed
\* extractor counts as no items.
AfterTaskSummaryOnly(req) ==
    IF req.pc # "gather" THEN req
    ELSE IF req.sumSt = "raised" THEN GatherFailed(req)
    ELSE IF req.sumSt = "ok" /\ req.extSt \in {"ok", "raised"} THEN GatherJoined(req)
    ELSE req

\* What the handler, suspended in asyncio.gather, does once a task has settled:
\* it resumes on the first exception or when both have returned.  A task that
\* settles after the handler has moved on changes nothing the handler holds.
AfterTask(req) ==
    IF req.pc # "gather" THEN req
    ELSE IF req.sumSt = "raised" \/ req.extSt = "raised" THEN GatherFailed(req)
    ELSE IF req.sumSt = "ok" /\ req.extSt = "ok" THEN GatherJoined(req)
    ELSE req

\* generate_summary's chat call returns or raises.
SummaryDone(reply) ==
    /\ ing.sumSt = "pending"
    /\ LET r == ollama_chat(ing.key, reply)
       IN  ing' = AfterTask(IF r.exc # "none"
                            THEN [ing EXCEPT !.sumSt = "raised"]
                            ELSE [ing EXCEPT !.sumSt = "ok", !.sumRes = r.text])
    /\ UNCHANGED <<meetings, nextId, audio, od, resp>>

\* extract_action_items_via_llama returns or raises.
ExtractDone(reply) ==
    /\ ing.extSt = "pending"
    /\ LET r == extract_action_items_via_llama(ing.key, reply)
       IN  ing' = AfterTask(IF r.exc # "none"
                            THEN [ing EXCEPT !.extSt = "raised"]
                            ELSE [ing EXCEPT !.extSt = "ok", !.extRes = r.items,
                                             !.extRaw = reply.text])
    /\ UNCHANGED <<meetings, nextId, audio, od, resp>>

\* The request once the handler has returned with a status: its locals are
\* gone; how each call ended and the two tasks, which may still be running,
\* remain.
Returned(req, status) ==
    [req EXCEPT !.pc = "done", !.status = status, !.form = IngIdle.form,
                !.transcript = <<>>, !.summary = None, !.action_items = <<>>]

\* Lines 1032-1069: authenticate, then add and commit the row and answer with
\* meeting_to_dict of it.
Persist ==
    /\ ing.pc = "persist"
    /\ LET user == CurrentUser(ing.auth)
       IN  IF user = Unauthorized
           THEN /\ resp' = Response("ingest", ing.id, 401, "auth", ing.chatCalls,
                                    "none", NoBody)
                /\ ing' = Returned(ing, 401)
                /\ UNCHANGED meetings
           ELSE /\ meetings' = (ing.id :> NewMeeting(ing.id, user, ing.form,
                                                     ing.transcript, ing.summary,
                                                     ing.action_items)) @@ meetings
                /\ resp' = Response("ingest", ing.id, 200, "", ing.chatCalls,
                                    "none", NoBody)
                /\ ing' = Returned(ing, 200)
    /\ UNCHANGED <<nextId, audio, od>>

-----------------------------------------------------------------------------
(* Client replacement of action items: update_meeting_action_items *)

\* Lines 1227-1254, one transaction.  payload is a list of ActionItemPayload;
\* pydantic only requires task to be a string.
UpdateActionItems(authorization, m, payload) ==
    /\ LET user == CurrentUser(authorization)
       IN  IF user = Unauthorized
           THEN /\ resp' = Response("update_items", m, 401, "auth", 0, "none", NoBody)
                /\ UNCHANGED meetings
           ELSE IF ~Owned(m, user)
           THEN /\ resp' = Response("update_items", m, 404, "meeting", 0, "none", NoBody)
                /\ UNCHANGED meetings
           ELSE /\ meetings' = [meetings EXCEPT ![m].action_items = DumpItems(payload)]
                /\ resp' = Response("update_items", m, 200, "", 0, "none", NoBody)
    /\ UNCHANGED <<nextId, audio, ing, od>>

-----------------------------------------------------------------------------
(* On-demand AI endpoints.  Each runs up to its chat call in one step and    *)
(* finishes in a second step when the call returns or raises.                *)

OdIdle == [pc |-> "idle", op |-> "none", auth |-> None, key |-> None, m |-> 0]

Await(op, authorization, key, m) ==
    [pc |-> "await", op |-> op, auth |-> authorization, key |-> key, m |-> m]

\* A mutant of HasTranscript: only a missing or empty transcript is refused.
HasTranscriptUnstripped(transcript) == Truthy(transcript)

\* not (not meeting.transcript or not meeting.transcript.strip())
HasTranscript(transcript) == Truthy(transcript) /\ Strip(transcript) # <<>>

\* extract_action_items_endpoint, lines 1266-1286: up to the extractor call.
ReextractStart(authorization, key, m) ==
    /\ od.pc = "idle"
    /\ LET user == CurrentUser(authorization)
       IN  IF user = Unauthorized
           THEN /\ resp' = Response("reextract", m, 401, "auth", 0, "none", NoBody)
                /\ UNCHANGED od
           ELSE IF ~Owned(m, user)
           THEN /\ resp' = Response("reextract", m, 404, "meeting", 0, "none", NoBody)
                /\ UNCHANGED od
           ELSE IF ~HasTranscript(meetings[m].transcript)
           THEN /\ resp' = Response("reextract", m, 400, "no_transcript", 0, "none",
                                    NoBody)
                /\ UNCHANGED od
           ELSE /\ od' = Await("reextract", authorization, key, m)
                /\ UNCHANGED resp
    /\ UNCHANGED <<meetings, nextId, audio, ing>>

\* A mutant of ReextractStored: a failed extraction clears the stored items.
ReextractStoredClears(m, r) ==
    [meetings EXCEPT ![m].action_items = IF r.exc # "none" THEN <<>>
                                         ELSE DumpItems(r.items)]

\* A mutant of ReextractStored: an extraction that found nothing leaves the
\* stored items alone.
ReextractStoredKeepsOnEmpty(m, r) ==
    IF r.exc # "none" \/ r.items = <<>> THEN meetings
    ELSE [meetings EXCEPT ![m].action_items = DumpItems(r.items)]

\* Lines 1283-1301: the rows after the extractor call r.  When it raises, the
\* handler's finally closes the session and nothing is committed.
ReextractStored(m, r) ==
    IF r.exc # "none" THEN meetings
    ELSE [meetings EXCEPT ![m].action_items = DumpItems(r.items)]

\* Lines 1283-1303: the response after the extractor call r.
ReextractAnswer(m, r) ==
    IF r.exc # "none"
    THEN Response("reextract", m, StatusOfRaise(r), "ai", 1, r.exc, NoBody)
    ELSE Response("reextract", m, 200, "", 1, "ok", NoBody)

\* extract_action_items_endpoint, lines 1283-1303.
ReextractFinish(reply) ==
    /\ od.pc = "await"
    /\ od.op = "reextract"
    /\ LET r == extract_action_items_via_llama(od.key, reply)
       IN  /\ meetings' = ReextractStored(od.m, r)
           /\ resp' = ReextractAnswer(od.m, r)
    /\ od' = OdIdle
    /\ UNCHANGED <<nextId, audio, ing>>

\* smart_summary_endpoint, lines 1320-1334.  The mode only selects the prompt.
SmartSummaryStart(authorization, key, m) ==
    /\ od.pc = "idle"
    /\ LET user == CurrentUser(authorization)
       IN  IF user = Unauthorized
           THEN /\ resp' = Response("smart", m, 401, "auth", 0, "none", NoBody)
                /\ UNCHANGED od
           ELSE IF ~Owned(m, user)
           THEN /\ resp' = Response("smart", m, 404, "meeting", 0, "none", NoBody)
                /\ UNCHANGED od
           ELSE IF ~Truthy(meetings[m].transcript) /\ ~Truthy(meetings[m].summary)
           THEN /\ resp' = Response("smart", m, 400, "no_content", 0, "none", NoBody)
                /\ UNCHANGED od
           ELSE /\ od' = Await("smart", authorization, key, m)
                /\ UNCHANGED resp
    /\ UNCHANGED <<meetings, nextId, audio, ing>>

\* A mutant of SmartAnswer: the chat text is trimmed before it is returned.
SmartAnswerStripped(m, r) ==
    IF r.exc # "none"
    THEN Response("smart", m, StatusOfRaise(r), "ai", 1, r.exc, NoBody)
    ELSE Response("smart", m, 200, "", 1, "ok", Strip(r.text))

\* Lines 1335-1341: generate_smart_summary returns the chat text as it is.
SmartAnswer(m, r) ==
    IF r.exc # "none"
    THEN Response("smart", m, StatusOfRaise(r), "ai", 1, r.exc, NoBody)
    ELSE Response("smart", m, 200, "", 1, "ok", r.text)

SmartSummaryFinish(reply) ==
    /\ od.pc = "await"
    /\ od.op = "smart"
    /\ resp' = SmartAnswer(od.m, ollama_chat(od.key, reply))
    /\ od' = OdIdle
    /\ UNCHANGED <<meetings, nextId, audio, ing>>

\* A mutant of MeetingsOf: the query is not filtered by owner.
MeetingsOfAnyone(user) == DOMAIN meetings

\* db.query(Meeting).filter(Meeting.owner_id == current_user.id)
MeetingsOf(user) == {i \in DOMAIN meetings : meetings[i].owner = user}

\* The given meetings, newest first (order_by(Meeting.created_at.desc())).
RECURSIVE Descending(_)
Descending(ids) ==
    IF ids = {} THEN <<>>
    ELSE LET top == CHOOSE i \in ids :
                        \A j \in ids : meetings[j].created_at <= meetings[i].created_at
         IN  <<top>> \o Descending(ids \ {top})

\* A mutant of QAStart: the handler asks the model even when the caller has
\* no meetings.
QAStartAlwaysAsks(authorization, key, question) ==
    /\ od.pc = "idle"
    /\ IF Strip(question) = <<>>
       THEN /\ resp' = Response("qa", 0, 400, "question", 0, "none", NoBody)
            /\ UNCHANGED od
       ELSE IF CurrentUser(authorization) = Unauthorized
       THEN /\ resp' = Response("qa", 0, 401, "auth", 0, "none", NoBody)
            /\ UNCHANGED od
       ELSE /\ od' = Await("qa", authorization, key, 0)
            /\ UNCHANGED resp
    /\ UNCHANGED <<meetings, nextId, audio, ing>>

\* ai_question_answer, lines 1355-1374.
QAStart(authorization, key, question) ==
    /\ od.pc = "idle"
    /\ IF Strip(question) = <<>>
       THEN /\ resp' = Response("qa", 0, 400, "question", 0, "none", NoBody)
            /\ UNCHANGED od
       ELSE IF CurrentUser(authorization) = Unauthorized
       THEN /\ resp' = Response("qa", 0, 401, "auth", 0, "none", NoBody)
            /\ UNCHANGED od
       ELSE IF MeetingsOf(CurrentUser(authorization)) = {}
       THEN /\ resp' = Response("qa", 0, 200, "no_meetings", 0, "none",
                                [answer |-> <<"no meetings">>, references |-> <<>>])
            /\ UNCHANGED od
       ELSE /\ od' = Await("qa", authorization, key, 0)
            /\ UNCHANGED resp
    /\ UNCHANGED <<meetings, nextId, audio, ing>>

\* A reply to the Q&A prompt, as json.loads of the "{"-to-"}" slice sees it:
\* json is "none" (no JSON in it), "notobject" (a JSON value without get) or
\* "object"; answer is the object's answer; refsKind tells whether references is
\* missing, a list or a number; an entry of the list is a dict with a
\* meeting_id, or something else.
QaText(json, answer, refsKind, refs) ==
    [json |-> json, answer |-> answer, refsKind |-> refsKind, refs |-> refs]

Ref(id) == [dict |-> TRUE, meeting_id |-> id]
NotADict == [dict |-> FALSE, meeting_id |-> 0]

\* Lines 1401-1444: the response after the chat call r.  A references value
\* that is a number is iterated outside the try block and raises.
QAAnswer(authorization, r) ==
    LET raw == r.text
        id_set == {raw.refs[k].meeting_id :
                      k \in {j \in 1..Len(raw.refs) : raw.refs[j].dict}}
        rows == Descending({i \in MeetingsOf(CurrentUser(authorization)) : i \in id_set})
    IN  IF r.exc # "none"
        THEN Response("qa", 0, StatusOfRaise(r), "ai", 1, r.exc, NoBody)
        ELSE IF raw.json # "object"
        THEN Response("qa", 0, 200, "fallback", 1, "ok",
                      [answer |-> raw, references |-> <<>>])
        ELSE IF raw.refsKind = "number"
        THEN Response("qa", 0, 500, "unhandled", 1, "ok", NoBody)
        ELSE Response("qa", 0, 200, "", 1, "ok",
                      [answer |-> IF Truthy(raw.answer) /\ Strip(raw.answer) # <<>>
                                  THEN Strip(raw.answer) ELSE raw,
                       references |-> IF raw.refsKind = "list" THEN rows ELSE <<>>])

QAFinish(reply) ==
    /\ od.pc = "await"
    /\ od.op = "qa"
    /\ resp' = QAAnswer(od.auth, ollama_chat(od.key, reply))
    /\ od' = OdIdle
    /\ UNCHANGED <<meetings, nextId, audio, ing>>

\* ai_topics, lines 1455-1469.
TopicsStart(authorization, key) ==
    /\ od.pc = "idle"
    /\ IF CurrentUser(authorization) = Unauthorized
       THEN /\ resp' = Response("topics", 0, 401, "auth", 0, "none", NoBody)
            /\ UNCHANGED od
       ELSE IF MeetingsOf(CurrentUser(authorization)) = {}
       THEN /\ resp' = Response("topics", 0, 200, "no_meetings", 0, "none", <<>>)
            /\ UNCHANGED od
       ELSE /\ od' = Await("topics", authorization, key, 0)
            /\ UNCHANGED resp
    /\ UNCHANGED <<meetings, nextId, audio, ing>>

\* A reply to the topics prompt: json as for Q&A; clustersKind tells whether
\* clusters is missing, a list or a number; a cluster is a dict with a name
\* and meeting_ids, or something else.  A name is a string, None or a
\* number; meeting_ids is a number or a list of the tokens "1" and "9" (ids
\* that are strings or integers, in the text str() gives them) and "null".
TopicsText(json, clustersKind, clusters) ==
    [json |-> json, clustersKind |-> clustersKind, clusters |-> clusters]

ANumber == <<"NUMBER">>

Cluster(name, ids) == [dict |-> TRUE, name |-> name, meeting_ids |-> ids]

\* Line 1511: (c.get("name") or "").strip(), for a name that is no number.
ClusterName(c) == IF Truthy(c.name) THEN Strip(c.name) ELSE <<>>

\* Lines 1509-1519: whether the loop body raises on cluster c: strip() of a
\* name that is a number, or the iteration of meeting_ids that is a number
\* (reached only when the name is kept).
ClusterRaises(c) ==
    /\ c.dict
    /\ \/ c.name = ANumber
       \/ ClusterName(c) # <<>> /\ c.meeting_ids = ANumber

\* A mutant of KeptClusters: clusters with a blank name are kept too.
RECURSIVE KeptClustersBlankToo(_)
KeptClustersBlankToo(cs) ==
    IF cs = <<>> THEN <<>>
    ELSE LET c == Head(cs)
         IN  (IF c.dict
              THEN <<[name |-> ClusterName(c),
                      meeting_ids |-> SelectSeq(c.meeting_ids, LAMBDA mid : mid # "null")]>>
              ELSE <<>>) \o KeptClustersBlankToo(Tail(cs))

\* Lines 1508-1525: the clusters with a non-blank name, names trimmed, each
\* with its ids that are str or int, of a list on which the loop does not
\* raise.
RECURSIVE KeptClusters(_)
KeptClusters(cs) ==
    IF cs = <<>> THEN <<>>
    ELSE LET c == Head(cs)
         IN  (IF c.dict /\ ClusterName(c) # <<>>
              THEN <<[name |-> ClusterName(c),
                      meeting_ids |-> SelectSeq(c.meeting_ids, LAMBDA mid : mid # "null")]>>
              ELSE <<>>) \o KeptClusters(Tail(cs))

\* Lines 1497-1529: the response after the chat call r; everything after the
\* call is inside the try block, so a cluster on which the loop raises
\* empties the whole answer.
TopicsAnswer(r) ==
    LET raw == r.text
    IN  IF r.exc # "none"
        THEN Response("topics", 0, StatusOfRaise(r), "ai", 1, r.exc, NoBody)
        ELSE IF raw.json # "object" \/ raw.clustersKind = "number"
        THEN Response("topics", 0, 200, "fallback", 1, "ok", <<>>)
        ELSE IF raw.clustersKind = "list"
                /\ \E k \in 1..Len(raw.clusters) : ClusterRaises(raw.clusters[k])
        THEN Response("topics", 0, 200, "fallback", 1, "ok", <<>>)
        ELSE Response("topics", 0, 200, "", 1, "ok",
                      IF raw.clustersKind = "list" THEN KeptClusters(raw.clusters)
                      ELSE <<>>)

TopicsFinish(reply) ==
    /\ od.pc = "await"
    /\ od.op = "topics"
    /\ resp' = TopicsAnswer(ollama_chat(od.key, reply))
    /\ od' = OdIdle
    /\ UNCHANGED <<meetings, nextId, audio, ing>>

-----------------------------------------------------------------------------
(* Calendar Sync Merger: sync_meeting_calendar *)

\* An ISO timestamp is the mark "T" followed by one "+" per hour since the
\* epoch of the model; any other text is not a timestamp.
IsoFormat(h) == <<"T">> \o [i \in 1..h |-> "+"]

\* Whether datetime.fromisoformat accepts the text, and the hour it yields.
ParsesIso(t) == t # <<>> /\ Head(t) = "T" /\ \A i \in 2..Len(t) : t[i] = "+"
FromIsoFormat(t) == Len(t) - 1

\* meeting.created_at.isoformat()
CreatedIso(row) == IsoFormat(row.created_at)

\* a or b, for optional strings
Or(a, b) == IF Truthy(a) THEN a ELSE b

\* A mutant of ResolveStart: the stored start time wins over the payload's.
ResolveStartStoredFirst(payload, row) ==
    Or(Or(row.start_time, payload.start_time), CreatedIso(row))

\* Lines 1559-1563: the start time sent and stored.
ResolveStart(payload, row) ==
    Or(Or(payload.start_time, row.start_time), CreatedIso(row))

\* A mutant of ResolveEnd: without an end time the end is the start itself.
ResolveEndAsStart(payload, row) ==
    Or(Or(payload.end_time, row.end_time), ResolveStart(payload, row))

\* Lines 1560-1572: the end time sent and stored.
ResolveEnd(payload, row) ==
    LET start_iso == ResolveStart(payload, row)
    IN  Or(Or(payload.end_time, row.end_time),
           IF ParsesIso(start_iso) THEN IsoFormat(FromIsoFormat(start_iso) + 1)
           ELSE start_iso)

\* "\n".join(lines)
RECURSIVE Join(_)
Join(lines) ==
    IF lines = <<>> THEN <<>>
    ELSE IF Len(lines) = 1 THEN Head(lines)
    ELSE Head(lines) \o <<"\n">> \o Join(Tail(lines))

\* Lines 1574-1584: description_snippet.
Snippet(row) ==
    Join(<<<<"Meeting notes from AI Meeting Notes:">>,
           <<"Title: ">> \o row.title,
           <<"Created at: ">> \o CreatedIso(row)>>
         \o (IF Truthy(row.summary) THEN <<<<>>, <<"Summary:">>, row.summary>>
             ELSE <<>>))

\* sub in s
Contains(s, sub) ==
    \E i \in 0..(Len(s) - Len(sub)) : SubSeq(s, i + 1, i + Len(sub)) = sub

\* A mutant of MergedDescription: the snippet is appended on every sync.
MergedDescriptionAlways(description, snippet) ==
    LET existing_desc == Or(description, <<>>)
    IN  IF existing_desc # <<>>
        THEN existing_desc \o <<"\n", "\n", "---", "\n">> \o snippet
        ELSE snippet

\* Lines 1601-1608: new_desc from ev.get("description") and the snippet.
MergedDescription(description, snippet) ==
    LET existing_desc == Or(description, <<>>)
    IN  IF ~Contains(existing_desc, snippet)
        THEN IF existing_desc # <<>>
             THEN existing_desc \o <<"\n", "\n", "---", "\n">> \o snippet
             ELSE snippet
        ELSE existing_desc

\* An event of the external calendar.
Event(summary, description, start, end) ==
    [summary |-> summary, description |-> description, start |-> start, end |-> end]

\* CalendarSyncPayload
SyncPayload(event_id, start_time, end_time) ==
    [event_id |-> event_id, start_time |-> start_time, end_time |-> end_time]

\* users.google_creds_json is set for these users.
GoogleUsers == {"u1"}

\* A sync request: where the handler is, and its locals.
SyncIdle ==
    [pc |-> "idle", m |-> 0, payload |-> SyncPayload(None, None, None),
     event_id |-> None, title |-> <<>>,
     start_iso |-> None, end_iso |-> None, description_snippet |-> <<>>,
     existing_desc |-> <<>>, ev |-> Event(None, None, None, None)]

\* A request that has been answered: its locals are gone.
SyncDone == [SyncIdle EXCEPT !.pc = "done"]

\* Sync requests that reach the calendar in one behaviour.  The handler is a
\* plain def, which the server runs on worker threads, so they may all be in
\* progress at once.
MaxSyncs == 2

\* The id the calendar gives the k-th inserted event.
NewEventId(k) == <<"n">> \o [i \in 1..k |-> "+"]

Inserted == {e \in DOMAIN events : Head(e) = "n"}

SyncResponse(m, status, detail) == Response("sync", m, status, detail, 0, "none", NoBody)

\* Lines 1546-1586: authenticate, build the client, load the meeting, resolve
\* the times and build the snippet, up to the first call to the calendar.
SyncStart(s, authorization, m, payload) ==
    /\ syncs[s].pc = "idle"
    /\ \A t \in 1..(s - 1) : syncs[t].pc # "idle"
    /\ LET user == CurrentUser(authorization)
       IN  IF user = Unauthorized
           THEN /\ resp' = SyncResponse(m, 401, "auth")
                /\ UNCHANGED syncs
           ELSE IF user \notin GoogleUsers
           THEN /\ resp' = SyncResponse(m, 400, "not_connected")
                /\ UNCHANGED syncs
           ELSE IF ~Owned(m, user)
           THEN /\ resp' = SyncResponse(m, 404, "meeting")
                /\ UNCHANGED syncs
           ELSE /\ syncs' = [syncs EXCEPT ![s] =
                     [pc |-> IF Truthy(payload.event_id) THEN "get" ELSE "insert",
                      m |-> m,
                      payload |-> payload,
                      event_id |-> payload.event_id,
                      title |-> meetings[m].title,
                      start_iso |-> ResolveStart(payload, meetings[m]),
                      end_iso |-> ResolveEnd(payload, meetings[m]),
                      description_snippet |-> Snippet(meetings[m]),
                      existing_desc |-> <<>>,
                      ev |-> SyncIdle.ev]]
                /\ UNCHANGED resp
    /\ UNCHANGED <<meetings, nextId, audio, ing, od, events>>

\* Lines 1646-1651: the three fields the handler commits.
SyncCommitted(req, event_id) ==
    [meetings EXCEPT ![req.m].calendar_event_id = event_id,
                     ![req.m].start_time = req.start_iso,
                     ![req.m].end_time = req.end_iso]

\* A mutant of SyncRaised: the request that raised commits its times anyway.
SyncRaisedCommits(req) ==
    SyncCommitted(req, req.event_id)

\* Lines 1596-1599, 1636-1639, 1641-1644 and 1652-1653: the handler raises
\* before db.commit() and closes the session; the rows stay as they were.
SyncRaised(req) ==
    meetings

\* Lines 1589-1614: events().get(); when it raises the request ends with a
\* 400, else the handler merges the description and sets the title (only on
\* an event without one) and the times on the event it holds.
SyncGet(s, succeeds) ==
    /\ syncs[s].pc = "get"
    /\ LET req == syncs[s]
       IN  IF ~succeeds \/ req.event_id \notin DOMAIN events
           THEN /\ resp' = SyncResponse(req.m, 400, "get_event")
                /\ syncs' = [syncs EXCEPT ![s] = SyncDone]
                /\ meetings' = SyncRaised(req)
           ELSE /\ syncs' = [syncs EXCEPT ![s] =
                     [req EXCEPT !.pc = "update",
                         !.existing_desc = Or(events[req.event_id].description, <<>>),
                         !.ev = Event(Or(events[req.event_id].summary, req.title),
                                      MergedDescription(events[req.event_id].description,
                                                        req.description_snippet),
                                      req.start_iso, req.end_iso)]]
                /\ UNCHANGED <<resp, meetings>>
    /\ UNCHANGED <<nextId, audio, ing, od, events>>

\* Lines 1615-1625 and 1641-1653: events().update() writes the event the
\* handler holds over the stored one; returned_id is the id of the answer,
\* which may lack one (line 1625 then keeps the id of the payload, and the
\* response detail records it).  When the call raises the request ends with
\* a 500.
SyncUpdate(s, succeeds, returned_id) ==
    /\ syncs[s].pc = "update"
    /\ LET req == syncs[s]
       IN  IF ~succeeds \/ req.event_id \notin DOMAIN events
           THEN /\ resp' = SyncResponse(req.m, 500, "update_event")
                /\ meetings' = SyncRaised(req)
                /\ UNCHANGED events
           ELSE /\ events' = [events EXCEPT ![req.event_id] = req.ev]
                /\ meetings' = SyncCommitted(req, Or(returned_id, req.event_id))
                /\ resp' = SyncResponse(req.m, 200,
                       IF Truthy(returned_id) THEN "" ELSE "payload_event_id")
    /\ syncs' = [syncs EXCEPT ![s] = SyncDone]
    /\ UNCHANGED <<nextId, audio, ing, od>>

\* Lines 1626-1653: events().insert() raises ("fail"), or stores a new event
\* and answers with its id ("ok") or with a body that has none ("noid").
SyncInsert(s, outcome) ==
    /\ syncs[s].pc = "insert"
    /\ LET req == syncs[s]
           id == NewEventId(Cardinality(Inserted) + 1)
           stored == (id :> Event(req.title, req.description_snippet,
                                  req.start_iso, req.end_iso)) @@ events
       IN  CASE outcome = "fail" ->
                  /\ resp' = SyncResponse(req.m, 500, "insert_event")
                  /\ meetings' = SyncRaised(req)
                  /\ UNCHANGED events
             [] outcome = "noid" ->
                  /\ events' = stored
                  /\ resp' = SyncResponse(req.m, 500, "no_event_id")
                  /\ meetings' = SyncRaised(req)
             [] OTHER ->
                  /\ events' = stored
                  /\ meetings' = SyncCommitted(req, id)
                  /\ resp' = SyncResponse(req.m, 200, "")
    /\ syncs' = [syncs EXCEPT ![s] = SyncDone]
    /\ UNCHANGED <<nextId, audio, ing, od>>

NoSyncs == [s \in 1..MaxSyncs |-> SyncIdle]

\* No calendar and no sync request: the other specifications leave both alone.
CalIdle == events = <<>> /\ syncs = NoSyncs

-----------------------------------------------------------------------------
(* Uploads, client edits of action items and re-extraction *)

\* What the clients send and the backends answer.
UploadAuth == {None, <<"Bearer", "t1">>}
Titles == {<<"A">>}
UploadForms == {Form(t, None, NoTime, NoTime, None) : t \in Titles}
TranscriptTexts == {<<" ">>, <<"t">>}
SummaryTexts == {<<"s">>}
RawSamples ==
    {<<"[", "oA", "]">>,
     <<"p", "[", "oD", ",", "oB", "]", "p">>,
     <<"p">>}
Payloads ==
    {<<[task |-> <<"f">>, status |-> None]>>,
     <<[task |-> <<" ">>, status |-> <<>>]>>}

\* One failure that raises HTTPException and one that raises something else.
AppFailKinds == {"transport", "notjson"}

ChatReplies(texts) ==
    {ChatReply(k, <<>>) : k \in AppFailKinds} \cup {ChatReply("content", t) : t \in texts}

TranscribeReplies ==
    {ChatReply(k, <<>>) : k \in TranscribeFailKinds}
        \cup {ChatReply("content", t) : t \in TranscriptTexts}

MeetingIds == 1..MaxMeetings

AppIdle ==
    /\ meetings = <<>>
    /\ nextId = 0
    /\ audio = {}
    /\ ing = IngIdle
    /\ od = OdIdle
    /\ folders = <<>>
    /\ resp = NoResp

Init ==
    /\ defaultKey \in DefaultKeys
    /\ AppIdle
    /\ ExtIdle
    /\ CalIdle

Next ==
    \/ \E a \in UploadAuth, k \in Keys, f \in UploadForms, stored \in BOOLEAN :
          IngestStart(a, k, f, stored) /\ UNCHANGED <<defaultKey, extVars, calVars, folders>>
    \/ \E reply \in TranscribeReplies :
          TranscribeDone(reply) /\ UNCHANGED <<defaultKey, extVars, calVars, folders>>
    \/ \E reply \in ChatReplies(SummaryTexts) :
          SummaryDone(reply) /\ UNCHANGED <<defaultKey, extVars, calVars, folders>>
    \/ \E reply \in ChatReplies(RawSamples) :
          ExtractDone(reply) /\ UNCHANGED <<defaultKey, extVars, calVars, folders>>
    \/ Persist /\ UNCHANGED <<defaultKey, extVars, calVars, folders>>
    \/ \E a \in UploadAuth, m \in MeetingIds, p \in Payloads :
          UpdateActionItems(a, m, p) /\ UNCHANGED <<defaultKey, extVars, calVars, folders>>
    \/ \E a \in UploadAuth, k \in Keys, m \in MeetingIds :
          ReextractStart(a, k, m) /\ UNCHANGED <<defaultKey, extVars, calVars, folders>>
    \/ \E reply \in ChatReplies(RawSamples) :
          ReextractFinish(reply) /\ UNCHANGED <<defaultKey, extVars, calVars, folders>>

Spec == Init /\ [][Next]_vars

-----------------------------------------------------------------------------
(* The on-demand AI endpoints over a table of stored meetings *)

\* Rows in the table when the requests start.
MaxRows == 2

OneItem == <<[task |-> <<"f">>, status |-> OPEN]>>

\* The transcript, summary and action items of rows that uploads and edits
\* leave behind: an upload whose transcription failed, one of silence and a
\* complete one.
StoredContents ==
    {<<<<>>, None, <<>>>>,
     <<<<" ">>, <<"s">>, OneItem>>,
     <<<<"t">>, <<"s">>, OneItem>>}

StoredRow(id, user, c) ==
    [NewMeeting(id, user, Form(<<"A">>, None, NoTime, NoTime, None), c[1], c[2], <<>>)
        EXCEPT !.action_items = c[3]]

\* Only the first user sends requests here, so the rows of the second user
\* all hold the content of a failed transcription.
Tables ==
    UNION {UNION {{[i \in 1..n |-> StoredRow(i, own[i], con[i])] :
                      con \in {c \in [1..n -> StoredContents] :
                                  \A i \in 1..n :
                                     own[i] = "u2" => c[i] = <<<<>>, None, <<>>>>}} :
                  own \in [1..n -> Users]} :
           n \in 0..MaxRows}

OdAuth == {None, <<"bearer", "t1">>}
Questions == {<<" ">>, <<"q">>}
QaTexts ==
    {QaText("none", None, "missing", <<>>),
     QaText("object", <<"a">>, "list", <<Ref(1), Ref(1), Ref(2), NotADict>>),
     QaText("object", None, "number", <<>>)}
TopicsTexts ==
    {TopicsText("none", "missing", <<>>),
     TopicsText("object", "list",
                <<Cluster(<<"n">>, <<>>), Cluster(<<" ">>, <<"1">>),
                  Cluster(<<" ", "m">>, <<"1", "null", "9">>)>>),
     TopicsText("object", "list",
                <<Cluster(<<"n">>, <<>>), Cluster(ANumber, <<"1">>)>>)}

InitOnDemand ==
    /\ defaultKey \in DefaultKeys
    /\ meetings \in Tables
    /\ nextId = Len(meetings)
    /\ audio = DOMAIN meetings
    /\ ing = IngIdle
    /\ od = OdIdle
    /\ folders = <<>>
    /\ resp = NoResp
    /\ ExtIdle
    /\ CalIdle

NextOnDemand ==
    \/ \E a \in OdAuth, k \in Keys, m \in 1..MaxRows :
          ReextractStart(a, k, m) /\ UNCHANGED <<defaultKey, extVars, calVars, folders>>
    \/ \E reply \in ChatReplies({<<"[", "oA", "]">>}) :
          ReextractFinish(reply) /\ UNCHANGED <<defaultKey, extVars, calVars, folders>>
    \/ \E a \in OdAuth, k \in Keys, m \in 1..MaxRows :
          SmartSummaryStart(a, k, m) /\ UNCHANGED <<defaultKey, extVars, calVars, folders>>
    \/ \E reply \in ChatReplies(SummaryTexts \cup TranscriptTexts) :
          SmartSummaryFinish(reply) /\ UNCHANGED <<defaultKey, extVars, calVars, folders>>
    \/ \E a \in OdAuth, k \in Keys, q \in Questions :
          QAStart(a, k, q) /\ UNCHANGED <<defaultKey, extVars, calVars, folders>>
    \/ \E reply \in ChatReplies(QaTexts) :
          QAFinish(reply) /\ UNCHANGED <<defaultKey, extVars, calVars, folders>>
    \/ \E a \in OdAuth, k \in Keys :
          TopicsStart(a, k) /\ UNCHANGED <<defaultKey, extVars, calVars, folders>>
    \/ \E reply \in ChatReplies(TopicsTexts) :
          TopicsFinish(reply) /\ UNCHANGED <<defaultKey, extVars, calVars, folders>>

SpecOnDemand == InitOnDemand /\ [][NextOnDemand]_vars

-----------------------------------------------------------------------------
(* Calendar sync requests over two stored meetings and one existing event *)

\* The rows the sync requests start from: two meetings of the connected
\* user, one with a summary and one without, and a meeting of the other user.
CalTable ==
    <<NewMeeting(1, "u1", Form(<<"A">>, None, NoTime, NoTime, None), <<"t">>, <<"s">>, <<>>),
      NewMeeting(2, "u1", Form(<<"B">>, None, NoTime, NoTime, None), <<>>, None, <<>>),
      NewMeeting(3, "u2", Form(<<"A">>, None, NoTime, NoTime, None), <<>>, None, <<>>)>>

\* The calendar they start from: one event, without a description or with
\* one of prose.
Prose == <<"p">>
ExistingEvent == <<"e1">>
CalEvents ==
    {(ExistingEvent :> Event(t, d, IsoFormat(0), IsoFormat(1))) :
        t \in {<<"E">>}, d \in {None, Prose}}

SyncAuth == {None, <<"Bearer", "t1">>, <<"Bearer", "t2">>}
SyncPayloads ==
    {SyncPayload(e, st, en) :
        e \in {None, ExistingEvent, <<"e9">>},
        st \in {None},
        en \in {None}}

InitCal ==
    /\ defaultKey = None
    /\ meetings = CalTable
    /\ nextId = Len(meetings)
    /\ audio = DOMAIN meetings
    /\ ing = IngIdle
    /\ od = OdIdle
    /\ folders = <<>>
    /\ resp = NoResp
    /\ ExtIdle
    /\ events \in CalEvents
    /\ syncs = NoSyncs

NextCal ==
    \/ \E s \in 1..MaxSyncs, a \in SyncAuth, m \in DOMAIN CalTable, p \in SyncPayloads :
          SyncStart(s, a, m, p) /\ UNCHANGED <<defaultKey, extVars, folders>>
    \/ \E s \in 1..MaxSyncs, ok \in BOOLEAN :
          SyncGet(s, ok) /\ UNCHANGED <<defaultKey, extVars, folders>>
    \/ \E s \in 1..MaxSyncs, ok \in BOOLEAN, id \in {None, ExistingEvent} :
          SyncUpdate(s, ok, id) /\ UNCHANGED <<defaultKey, extVars, folders>>
    \/ \E s \in 1..MaxSyncs, outcome \in {"fail", "noid", "ok"} :
          SyncInsert(s, outcome) /\ UNCHANGED <<defaultKey, extVars, folders>>

SpecCal == InitCal /\ [][NextCal]_vars

-----------------------------------------------------------------------------
(* Calendar sync requests over one meeting with and without stored times *)

\* The start_time and end_time the row holds before the first sync: none, a
\* start and an end two hours later, or a start that is no timestamp.
StoredTimes ==
    {<<NoTime, NoTime>>, <<IsoFormat(3), IsoFormat(5)>>, <<<<"x">>, NoTime>>}

TimesTables ==
    {<<NewMeeting(1, "u1", Form(<<"A">>, None, t[1], t[2], None), <<"t">>, None, <<>>)>> :
        t \in StoredTimes}

\* Payloads with and without an event id, a start time (a timestamp or not)
\* and an end time.
TimesPayloads ==
    {SyncPayload(e, st, en) :
        e \in {None, ExistingEvent},
        st \in {None, <<"x">>, IsoFormat(2)},
        en \in {None, IsoFormat(1)}}

InitTimes ==
    /\ defaultKey = None
    /\ meetings \in TimesTables
    /\ nextId = Len(meetings)
    /\ audio = DOMAIN meetings
    /\ ing = IngIdle
    /\ od = OdIdle
    /\ folders = <<>>
    /\ resp = NoResp
    /\ ExtIdle
    /\ events = (ExistingEvent :> Event(<<"E">>, None, IsoFormat(0), IsoFormat(1)))
    /\ syncs = NoSyncs

NextTimes ==
    \/ \E s \in 1..MaxSyncs, p \in TimesPayloads :
          SyncStart(s, <<"Bearer", "t1">>, 1, p) /\ UNCHANGED <<defaultKey, extVars, folders>>
    \/ \E s \in 1..MaxSyncs, ok \in BOOLEAN :
          SyncGet(s, ok) /\ UNCHANGED <<defaultKey, extVars, folders>>
    \/ \E s \in 1..MaxSyncs, ok \in BOOLEAN :
          SyncUpdate(s, ok, ExistingEvent) /\ UNCHANGED <<defaultKey, extVars, folders>>
    \/ \E s \in 1..MaxSyncs, outcome \in {"fail", "ok"} :
          SyncInsert(s, outcome) /\ UNCHANGED <<defaultKey, extVars, folders>>

SpecTimes == InitTimes /\ [][NextTimes]_vars

-----------------------------------------------------------------------------
(* Reading, editing and deleting meetings and their audio *)

\* get_meeting, lines 931-948.
GetMeeting(authorization, m) ==
    /\ LET user == CurrentUser(authorization)
       IN  resp' = IF user = Unauthorized
                   THEN Response("get", m, 401, "auth", 0, "none", NoBody)
                   ELSE IF ~Owned(m, user)
                   THEN Response("get", m, 404, "meeting", 0, "none", NoBody)
                   ELSE Response("get", m, 200, "", 0, "none", NoBody)
    /\ UNCHANGED <<meetings, nextId, audio, ing, od>>

\* update_meeting_metadata, lines 951-981: every field of the payload that
\* is not None replaces the field of the row.
UpdateMetadata(authorization, m, payload) ==
    /\ LET user == CurrentUser(authorization)
           set(field, old) == IF payload[field] # None THEN payload[field] ELSE old
       IN  IF user = Unauthorized
           THEN /\ resp' = Response("metadata", m, 401, "auth", 0, "none", NoBody)
                /\ UNCHANGED meetings
           ELSE IF ~Owned(m, user)
           THEN /\ resp' = Response("metadata", m, 404, "meeting", 0, "none", NoBody)
                /\ UNCHANGED meetings
           ELSE /\ meetings' =
                      [meetings EXCEPT
                          ![m].title = set("title", @),
                          ![m].start_time = set("start_time", @),
                          ![m].end_time = set("end_time", @),
                          ![m].calendar_event_id = set("calendar_event_id", @)]
                /\ resp' = Response("metadata", m, 200, "", 0, "none", NoBody)
    /\ UNCHANGED <<nextId, audio, ing, od>>

\* get_audio, lines 1072-1077: the handler takes the file name and nothing
\* else; the Authorization header of the request is not a parameter of it.
\* The file of meeting m is named after the meeting's id (line 999).
GetAudio(authorization, filename) ==
    /\ resp' = IF filename \notin audio
               THEN Response("audio", filename, 404, "audio", 0, "none", NoBody)
               ELSE Response("audio", filename, 200, "", 0, "none", NoBody)
    /\ UNCHANGED <<meetings, nextId, audio, ing, od>>

\* delete_meeting, lines 1080-1108: os.remove of the audio file may raise
\* OSError, which the handler swallows (removed = FALSE); the row goes.
DeleteMeeting(authorization, m, removed) ==
    /\ LET user == CurrentUser(authorization)
       IN  IF user = Unauthorized
           THEN /\ resp' = Response("delete", m, 401, "auth", 0, "none", NoBody)
                /\ UNCHANGED <<meetings, audio>>
           ELSE IF ~Owned(m, user)
           THEN /\ resp' = Response("delete", m, 404, "meeting", 0, "none", NoBody)
                /\ UNCHANGED <<meetings, audio>>
           ELSE /\ audio' = IF removed THEN audio \ {meetings[m].audio_path} ELSE audio
                /\ meetings' = [i \in DOMAIN meetings \ {m} |-> meetings[i]]
                /\ resp' = Response("delete", m, 200, "", 0, "none", NoBody)
    /\ UNCHANGED <<nextId, ing, od>>

\* MeetingMetadataUpdate, lines 184-188.
MetadataPayloads ==
    {[title |-> t, start_time |-> st, end_time |-> en, calendar_event_id |-> None] :
        t \in {None, <<"B">>}, st \in {None}, en \in {None, IsoFormat(1)}}

\* The requests start from the rows and the callers of the calendar
\* specification, each row with its audio file.
InitAccess ==
    /\ defaultKey = None
    /\ meetings = CalTable
    /\ nextId = Len(meetings)
    /\ audio = DOMAIN meetings
    /\ ing = IngIdle
    /\ od = OdIdle
    /\ folders = <<>>
    /\ resp = NoResp
    /\ ExtIdle
    /\ CalIdle

NextAccess ==
    \/ \E a \in SyncAuth, m \in DOMAIN CalTable :
          GetMeeting(a, m) /\ UNCHANGED <<defaultKey, extVars, calVars, folders>>
    \/ \E a \in SyncAuth, m \in DOMAIN CalTable, p \in MetadataPayloads :
          UpdateMetadata(a, m, p) /\ UNCHANGED <<defaultKey, extVars, calVars, folders>>
    \/ \E a \in SyncAuth, f \in DOMAIN CalTable :
          GetAudio(a, f) /\ UNCHANGED <<defaultKey, extVars, calVars, folders>>
    \/ \E a \in SyncAuth, m \in DOMAIN CalTable, removed \in BOOLEAN :
          DeleteMeeting(a, m, removed) /\ UNCHANGED <<defaultKey, extVars, calVars, folders>>

SpecAccess == InitAccess /\ [][NextAccess]_vars

-----------------------------------------------------------------------------
(* The extractor on its own: every reply of up to MaxRawLen tokens *)

\* Replies the harness pairs with every combination of credentials.
KeyedRaws == {<<"[", "oA", "]">>}

\* Every reply under a working per-call credential, and every credential
\* combination under every backend failure and a short reply.
InitExtract ==
    /\ AppIdle
    /\ CalIdle
    /\ xres = NoRes
    /\ xpc = "call"
    /\ \/ /\ defaultKey = None
          /\ xkey = <<"k">>
          /\ xreply = "content"
          /\ xraw \in AllRaws
       \/ /\ defaultKey \in DefaultKeys
          /\ xkey \in Keys
          /\ \/ xreply = "content" /\ xraw \in KeyedRaws
             \/ xreply \in ChatFailKinds /\ xraw = <<>>

ExtractCall ==
    /\ xpc = "call"
    /\ xres' = extract_action_items_via_llama(xkey, ChatReply(xreply, xraw))
    /\ xpc' = "done"
    /\ UNCHANGED <<defaultKey, xraw, xreply, xkey, appVars, calVars, folders>>

NextExtract == ExtractCall

SpecExtract == InitExtract /\ [][NextExtract]_vars

-----------------------------------------------------------------------------
(* The two gateways on their own, under every pair of credentials *)

\* A call of either gateway: a per-call credential and a process-wide one
\* that are None, empty, blank, padded or plain, and each way the backend
\* can answer.
InitKeys ==
    /\ AppIdle
    /\ CalIdle
    /\ xres = NoRes
    /\ xpc = "call"
    /\ defaultKey \in {None, <<>>, <<" ">>, <<" ", "k">>, <<"k">>}
    /\ xkey \in {None, <<>>, <<" ">>, <<" ", "k">>, <<"k">>}
    /\ xreply \in ChatFailKinds \cup {"content"}
    /\ xraw = <<"t">>

\* ollama_chat(prompt, api_key=xkey) or transcribe_audio(path, api_key=xkey).
GatewayCall(gateway) ==
    /\ xpc = "call"
    /\ gateway = "transcribe" => xreply \in TranscribeFailKinds \cup {"content"}
    /\ xres' = IF gateway = "chat"
               THEN ollama_chat(xkey, ChatReply(xreply, xraw))
               ELSE transcribe_audio(xkey, ChatReply(xreply, xraw))
    /\ xpc' = gateway
    /\ UNCHANGED <<defaultKey, xraw, xreply, xkey, appVars, calVars, folders>>

NextKeys == \E gateway \in {"chat", "transcribe"} : GatewayCall(gateway)

SpecKeys == InitKeys /\ [][NextKeys]_vars

-----------------------------------------------------------------------------
(* Calendar syncs and metadata edits of one meeting *)

\* The sync requests of SpecTimes, and the owner's edits of the title and of
\* the end time of the same meeting.
NextEdits ==
    \/ NextTimes
    \/ \E p \in MetadataPayloads :
          UpdateMetadata(<<"Bearer", "t1">>, 1, p)
              /\ UNCHANGED <<defaultKey, extVars, calVars, folders>>

SpecEdits == InitTimes /\ [][NextEdits]_vars

-----------------------------------------------------------------------------
(* Re-extraction and client edits over one stored meeting *)

\* The replies of the extractor's chat call: those of the uploads, and an
\* array with one element whose task is not a string.
ReextractSamples == RawSamples \cup {<<"[", "oD", ",", "oN", "]">>}

InitReextract ==
    /\ defaultKey \in DefaultKeys
    /\ meetings \in {<<StoredRow(1, "u1", c)>> : c \in StoredContents}
    /\ nextId = Len(meetings)
    /\ audio = DOMAIN meetings
    /\ ing = IngIdle
    /\ od = OdIdle
    /\ folders = <<>>
    /\ resp = NoResp
    /\ ExtIdle
    /\ CalIdle

NextReextract ==
    \/ \E a \in UploadAuth, p \in Payloads :
          UpdateActionItems(a, 1, p) /\ UNCHANGED <<defaultKey, extVars, calVars, folders>>
    \/ \E a \in UploadAuth, k \in Keys :
          ReextractStart(a, k, 1) /\ UNCHANGED <<defaultKey, extVars, calVars, folders>>
    \/ \E reply \in ChatReplies(ReextractSamples) :
          ReextractFinish(reply) /\ UNCHANGED <<defaultKey, extVars, calVars, folders>>

SpecReextract == InitReextract /\ [][NextReextract]_vars

-----------------------------------------------------------------------------
(* Folders: create_folder, delete_folder, set_meeting_folder and uploads that
   name a folder *)

\* Total folder ids drawn in one behaviour.
MaxFolders == 2

\* str(uuid.uuid4()) of the k-th folder created: ids are never drawn twice.
FolderId(k) == <<"f">> \o [i \in 1..k |-> "+"]

\* db.query(Folder).filter(Folder.id == folder_id,
\*                         Folder.owner_id == current_user.id).first()
OwnedFolder(folder_id, user) ==
    \E k \in DOMAIN folders :
        FolderId(k) = folder_id /\ folders[k].live /\ folders[k].owner = user

\* create_folder, lines 804-822.  The name of the folder is kept by no other
\* handler of this model and is left out.
CreateFolder(authorization) ==
    /\ Len(folders) < MaxFolders
    /\ LET user == CurrentUser(authorization)
       IN  IF user = Unauthorized
           THEN /\ resp' = Response("mkfolder", 0, 401, "auth", 0, "none", NoBody)
                /\ UNCHANGED folders
           ELSE /\ folders' = Append(folders, [owner |-> user, live |-> TRUE])
                /\ resp' = Response("mkfolder", 0, 200, "", 0, "none", NoBody)
    /\ UNCHANGED <<meetings, nextId, audio, ing, od>>

\* delete_folder, lines 825-844.  Folder.meetings (line 95) has no delete
\* cascade, so the unit of work of db.delete(folder) sets folder_id of every
\* row that references the folder to NULL before it deletes the folder.
DeleteFolder(authorization, folder_id) ==
    /\ LET user == CurrentUser(authorization)
       IN  IF user = Unauthorized
           THEN /\ resp' = Response("rmfolder", 0, 401, "auth", 0, "none", NoBody)
                /\ UNCHANGED <<meetings, folders>>
           ELSE IF ~OwnedFolder(folder_id, user)
           THEN /\ resp' = Response("rmfolder", 0, 404, "folder", 0, "none", NoBody)
                /\ UNCHANGED <<meetings, folders>>
           ELSE /\ folders' = [k \in DOMAIN folders |->
                                  IF FolderId(k) = folder_id
                                  THEN [folders[k] EXCEPT !.live = FALSE]
                                  ELSE folders[k]]
                /\ meetings' = [i \in DOMAIN meetings |->
                                   IF meetings[i].folder_id = folder_id
                                   THEN [meetings[i] EXCEPT !.folder_id = None]
                                   ELSE meetings[i]]
                /\ resp' = Response("rmfolder", 0, 200, "", 0, "none", NoBody)
    /\ UNCHANGED <<nextId, audio, ing, od>>

\* set_meeting_folder, lines 1171-1215.
SetMeetingFolder(authorization, m, folder_id) ==
    /\ LET user == CurrentUser(authorization)
       IN  IF user = Unauthorized
           THEN /\ resp' = Response("folder", m, 401, "auth", 0, "none", NoBody)
                /\ UNCHANGED meetings
           ELSE IF ~Owned(m, user)
           THEN /\ resp' = Response("folder", m, 404, "meeting", 0, "none", NoBody)
                /\ UNCHANGED meetings
           ELSE IF folder_id # None /\ ~OwnedFolder(folder_id, user)
           THEN /\ resp' = Response("folder", m, 404, "folder", 0, "none", NoBody)
                /\ UNCHANGED meetings
           ELSE /\ meetings' = [meetings EXCEPT ![m].folder_id = folder_id]
                /\ resp' = Response("folder", m, 200, "", 0, "none", NoBody)
    /\ UNCHANGED <<nextId, audio, ing, od, folders>>

\* The folder ids clients send: none, and the id of every folder there can be.
FolderIds == {None} \cup {FolderId(k) : k \in 1..MaxFolders}

\* No credential is configured or sent, so the transcription of every upload
\* is refused and the row is stored without transcript (lines 1022-1030).
InitFolders ==
    /\ defaultKey = None
    /\ AppIdle
    /\ ExtIdle
    /\ CalIdle

NextFolders ==
    \/ \E a \in SyncAuth, t \in Titles, fid \in FolderIds, stored \in BOOLEAN :
          IngestStart(a, None, Form(t, fid, NoTime, NoTime, None), stored)
              /\ UNCHANGED <<defaultKey, extVars, calVars, folders>>
    \/ \E reply \in TranscribeReplies :
          TranscribeDone(reply) /\ UNCHANGED <<defaultKey, extVars, calVars, folders>>
    \/ Persist /\ UNCHANGED <<defaultKey, extVars, calVars, folders>>
    \/ \E a \in SyncAuth : CreateFolder(a) /\ UNCHANGED <<defaultKey, extVars, calVars>>
    \/ \E a \in SyncAuth, fid \in FolderIds :
          DeleteFolder(a, fid) /\ UNCHANGED <<defaultKey, extVars, calVars>>
    \/ \E a \in SyncAuth, m \in MeetingIds, fid \in FolderIds :
          SetMeetingFolder(a, m, fid) /\ UNCHANGED <<defaultKey, extVars, calVars>>

SpecFolders == InitFolders /\ [][NextFolders]_vars

-----------------------------------------------------------------------------
(* Properties of ingestion, checked under Spec *)

\* The step in which create_meeting_with_audio commits the row.
PersistStep == ing.pc = "persist" /\ ing'.pc = "done"

Authenticated(req) == CurrentUser(req.auth) # Unauthorized

\* C1: whatever the transcription, summary and action-item calls did, an
\* upload whose audio was stored and whose caller authenticates ends with a
\* 200 response and exactly one new row, the row of its own id; the request
\* never ends in any other way than by persisting.
C1_IngestionNeverFailsOnAI ==
    [][(ing.pc # "done" /\ ing'.pc = "done" /\ Authenticated(ing))
          => /\ PersistStep
             /\ ing'.status = 200
             /\ resp' = Response("ingest", ing.id, 200, "", ing.chatCalls, "none", NoBody)
             /\ ing.id \notin DOMAIN meetings
             /\ DOMAIN meetings' = DOMAIN meetings \cup {ing.id}
             /\ \A m \in DOMAIN meetings : meetings'[m] = meetings[m]]_vars

\* An authenticated upload answered with 200 and stored after transcription
\* succeeded and both the summary and the extractor call raised.
C1_Witness ==
    /\ ing.pc = "done"
    /\ Authenticated(ing)
    /\ ing.status = 200
    /\ ing.trans = "ok"
    /\ ing.sumSt = "raised"
    /\ ing.extSt = "raised"
    /\ ing.id \in DOMAIN meetings

\* C2: when the transcription call of an upload raised, the row persisted for
\* it has status "completed", an empty transcript, no summary and no action
\* items, and the response is a 200.
C2_TranscriptionFailureRow ==
    [][(PersistStep /\ Authenticated(ing) /\ ing.trans \notin {"ok", "none"})
          => /\ ing.id \in DOMAIN meetings'
             /\ meetings'[ing.id].status = "completed"
             /\ meetings'[ing.id].transcript = <<>>
             /\ meetings'[ing.id].summary = None
             /\ meetings'[ing.id].action_items = <<>>
             /\ resp'.status = 200
             /\ ing.chatCalls = 0]_vars

\* A stored row of an upload whose transcription call raised.
C2_Witness ==
    /\ ing.pc = "done"
    /\ ing.trans = "HTTPException"
    /\ ing.status = 200
    /\ ing.id \in DOMAIN meetings
    /\ meetings[ing.id].status = "completed"
    /\ meetings[ing.id].transcript = <<>>
    /\ meetings[ing.id].summary = None

\* C3: when transcription succeeded and the summary call raised, the row
\* persisted keeps the transcript and has no summary and no action items,
\* also when the extractor had returned items.
C3_SummaryFailureDropsItems ==
    [][(PersistStep /\ Authenticated(ing) /\ ing.trans = "ok" /\ ing.sumSt = "raised")
          => /\ ing.id \in DOMAIN meetings'
             /\ meetings'[ing.id].transcript = ing.transcript
             /\ meetings'[ing.id].summary = None
             /\ meetings'[ing.id].action_items = <<>>]_vars

\* A stored row with its transcript and nothing else, of an upload whose
\* extractor returned items before the summary call raised.
C3_Witness ==
    /\ ing.pc = "done"
    /\ ing.status = 200
    /\ ing.trans = "ok"
    /\ ing.sumSt = "raised"
    /\ ing.extSt = "ok"
    /\ ing.extRes # <<>>
    /\ ing.id \in DOMAIN meetings
    /\ meetings[ing.id].transcript = <<"t">>
    /\ meetings[ing.id].summary = None
    /\ meetings[ing.id].action_items = <<>>

\* The extractor of the upload failed as C4 understands it: its chat call
\* raised, or the text it got could not be parsed.
ExtractorFailed(req) ==
    \/ req.extSt = "raised"
    \/ req.extSt = "ok" /\ ParseItems(req.extRaw).raised

\* C4 as claimed: when transcription succeeded and the extractor failed (its
\* chat call failed or the model output could not be parsed), the row
\* persisted has no summary and no action items.
C4_Original ==
    [][(PersistStep /\ Authenticated(ing) /\ ing.trans = "ok" /\ ExtractorFailed(ing))
          => /\ meetings'[ing.id].summary = None
             /\ meetings'[ing.id].action_items = <<>>]_vars

\* C4 amended: when the extractor's chat call raised, the row persisted has no
\* summary and no action items; when the model output could not be parsed the
\* extractor returned an empty list, and the row has no action items and the
\* summary of the Summary Generator if that had returned one; a row has a
\* summary only if both tasks returned.
C4_ExtractorFailure ==
    [][(PersistStep /\ Authenticated(ing) /\ ing.trans = "ok")
          => /\ ing.extSt = "raised"
                   => /\ meetings'[ing.id].summary = None
                      /\ meetings'[ing.id].action_items = <<>>
             /\ (ing.extSt = "ok" /\ ParseItems(ing.extRaw).raised)
                   => /\ meetings'[ing.id].action_items = <<>>
                      /\ ing.sumSt = "ok" => meetings'[ing.id].summary = ing.sumRes
             /\ meetings'[ing.id].summary # None
                   => ing.sumSt = "ok" /\ ing.extSt = "ok"]_vars

\* A stored row without a summary of an upload whose summary call returned
\* and whose extractor call raised.
C4_Witness ==
    /\ ing.pc = "done"
    /\ ing.status = 200
    /\ ing.trans = "ok"
    /\ ing.sumSt = "ok"
    /\ ing.sumRes = <<"s">>
    /\ ing.extSt = "raised"
    /\ ing.id \in DOMAIN meetings
    /\ meetings[ing.id].summary = None
    /\ meetings[ing.id].action_items = <<>>

\* C7 as claimed: no stored row holds an action item whose task is empty or
\* whitespace only.
C7_NoBlankTaskStored ==
    \A m \in DOMAIN meetings :
        \A k \in 1..Len(meetings[m].action_items) :
            Strip(meetings[m].action_items[k].task) # <<>>

\* A transcript that is missing, empty or whitespace only.
BlankTranscript(t) == t = None \/ Strip(t) = <<>>

\* C8: a re-extraction request for an owned meeting whose transcript is
\* missing, empty or blank is answered 400 without a chat call and changes
\* no row; no re-extraction is ever suspended at a chat call for such a
\* meeting.
C8_ReextractNeedsTranscript ==
    [][/\ (od'.pc = "await" /\ od'.op = "reextract")
            => /\ od'.m \in DOMAIN meetings
               /\ ~BlankTranscript(meetings[od'.m].transcript)
       /\ (/\ od.pc = "idle"
           /\ resp' # resp
           /\ resp'.op = "reextract"
           /\ resp'.status \notin {401, 404}
           /\ resp'.m \in DOMAIN meetings
           /\ BlankTranscript(meetings[resp'.m].transcript))
            => /\ resp'.status = 400
               /\ resp'.calls = 0
               /\ od' = od
               /\ meetings' = meetings]_vars

\* A re-extraction refused for a whitespace-only transcript of a row that has
\* stored action items.
C8_Witness ==
    /\ resp.op = "reextract"
    /\ resp.status = 400
    /\ resp.calls = 0
    /\ resp.m \in DOMAIN meetings
    /\ meetings[resp.m].transcript = <<" ">>
    /\ meetings[resp.m].action_items # <<>>

-----------------------------------------------------------------------------
(* Properties of the on-demand endpoints, checked under SpecOnDemand *)

\* C9: an on-demand request whose chat call fails is answered with an error
\* status (400 without a credential, 500 otherwise) by the endpoint that was
\* called, and the failed request changes no row.
C9_ChatFailureSurfaced ==
    [][(od.pc = "await" /\ od'.pc = "idle")
          => /\ resp'.op = od.op
             /\ resp'.calls = 1
             /\ ResolveKey(od.key) = <<>>
                   => resp'.status = 400 /\ resp'.chat = "HTTPException"
             /\ resp'.chat # "ok"
                   => /\ resp'.status \in {400, 500}
                      /\ resp'.chat \in {"HTTPException", "Exception"}
                      /\ meetings' = meetings]_vars

\* A re-extraction answered 500 after its chat call failed, for a row that
\* still has its action items.
C9_Witness ==
    /\ resp.op = "reextract"
    /\ resp.chat = "HTTPException"
    /\ resp.status = 500
    /\ resp.m \in DOMAIN meetings
    /\ meetings[resp.m].action_items = OneItem

-----------------------------------------------------------------------------
(* Properties of the extractor, checked under SpecExtract *)

\* The chat call of the harness fails: no credential, or the backend fails.
GatewayFails == ResolveKey(xkey) = <<>> \/ xreply \in ChatFailKinds

\* An item is well formed and comes from an object of the reply.
WellFormed(item) ==
    /\ item.task # <<>>
    /\ item.task # None
    /\ Strip(item.task) = item.task
    /\ item.status # <<>>
    /\ item.status # None
    /\ \E k \in 1..Len(xraw) :
          /\ xraw[k] \in ObjTokens
          /\ TaskOf(xraw[k]) # None
          /\ item.task = Strip(TaskOf(xraw[k]))
          /\ item.status = IF StatusOf(xraw[k]) \in {None, <<>>} THEN OPEN
                           ELSE StatusOf(xraw[k])

\* C5 as claimed: the extractor never raises to its caller, whatever the
\* Chat Gateway does.
C5_Original == xpc = "done" => xres.exc = "none"

\* C5 amended: the extractor raises exactly when its Chat Gateway call raises
\* (no credential, transport or upstream failure, a body that is not the
\* expected JSON); on every text the call returns it does not raise and
\* returns a list, possibly empty, of well-formed items: a non-empty trimmed
\* task and a non-empty status, "open" where the model gave none.
C5_ExtractorTotalOnText ==
    xpc = "done"
        => /\ xres.exc # "none" <=> GatewayFails
           /\ xres.exc = "none"
                 => \A k \in 1..Len(xres.items) : WellFormed(xres.items[k])
           /\ xres.exc # "none" => xres.items = <<>>

\* The extractor returned one trimmed item with the default status from a
\* reply with an untrimmed task and an entry with a blank task.
C5_Witness ==
    /\ xpc = "done"
    /\ xres.exc = "none"
    /\ xraw = <<"[", "oA", ",", "oB", "]">>
    /\ xres.items = <<[task |-> <<"d">>, status |-> OPEN]>>

\* The places of a reply where a JSON array sits in prose: the slice is a
\* JSON array and every token around it is a prose word or a bracket.
ProseTokens == {"p", "[", "]"}
ArraysInProse(raw) ==
    {s \in (1..Len(raw)) \X (1..Len(raw)) :
        /\ s[1] < s[2]
        /\ IsJsonArray(SubSeq(raw, s[1], s[2]))
        /\ \A k \in 1..Len(raw) : (k < s[1] \/ k > s[2]) => raw[k] \in ProseTokens}

\* C6 as claimed: for every reply with a JSON array in surrounding prose,
\* brackets in the prose included, the extractor recovers that array (the
\* outermost one where arrays nest).
C6_Original ==
    (xpc = "done" /\ xres.exc = "none")
        => \A s \in ArraysInProse(xraw) :
              (\A t \in ArraysInProse(xraw) : ~(t[1] <= s[1] /\ s[2] <= t[2] /\ t # s))
                  => xres.raw_json = SubSeq(xraw, s[1], s[2])

\* The slices of a reply that are a JSON array with no "[" in front of them
\* and no "]" behind them.
ArraysAtScan(raw) ==
    {s \in (1..Len(raw)) \X (1..Len(raw)) :
        /\ s[1] < s[2]
        /\ IsJsonArray(SubSeq(raw, s[1], s[2]))
        /\ \A k \in 1..(s[1] - 1) : raw[k] # "["
        /\ \A k \in (s[2] + 1)..Len(raw) : raw[k] # "]"}

\* The items of an array: its objects with a non-blank task, in order.
ItemsOfArray(arr) ==
    LET elems == ArrayElems(arr)
        kept == SelectSeq(elems, LAMBDA e : Len(e) = 1 /\ e[1] \in {"oA", "oD"})
    IN  [k \in 1..Len(kept) |->
            [task |-> Strip(TaskOf(kept[k][1])),
             status |-> IF kept[k][1] = "oD" THEN StatusOf("oD") ELSE OPEN]]

\* C6 amended: for every reply with a JSON array in surrounding text that has
\* no "[" before the array and no "]" after it, the slice from the first "["
\* to the last "]" is exactly that array, and the items returned are the
\* array's objects with a non-blank task (none when a task is not a string);
\* a "[" before or a "]" after the array makes the slice a different text.
C6_ScanRecoversArray ==
    (xpc = "done" /\ xres.exc = "none")
        => /\ \A s \in ArraysAtScan(xraw) :
                 LET arr == SubSeq(xraw, s[1], s[2])
                 IN  /\ xres.raw_json = arr
                     /\ xres.items = IF \E k \in 1..Len(arr) : arr[k] = "oN"
                                     THEN <<>> ELSE ItemsOfArray(arr)
           /\ \A s \in ArraysInProse(xraw) \ ArraysAtScan(xraw) :
                 xres.raw_json # SubSeq(xraw, s[1], s[2])

\* The array of a reply with prose on both sides was recovered.
C6_Witness ==
    /\ xpc = "done"
    /\ xres.exc = "none"
    /\ xraw = <<"p", "[", "oD", "]", "p">>
    /\ xres.raw_json = <<"[", "oD", "]">>
    /\ xres.items = <<[task |-> <<"g">>, status |-> StatusOf("oD")]>>

-----------------------------------------------------------------------------
(* Properties of calendar sync, checked under SpecCal *)

\* How often sub occurs in s.
Occurrences(s, sub) ==
    Cardinality({i \in 0..(Len(s) - Len(sub)) : SubSeq(s, i + 1, i + Len(sub)) = sub})

\* The step in which worker s gets the answer of a successful update.
UpdatedStep(s) ==
    /\ syncs[s].pc = "update"
    /\ syncs'[s].pc = "done"
    /\ resp'.status = 200

\* C10: after every successful sync of a meeting to an existing event, the
\* event's description holds the meeting's snippet exactly once; a sync that
\* found the snippet in the description, and whose update no other write
\* preceded, leaves the description as it was; and no description ever
\* holds the snippet of a meeting twice.
C10_SyncIdempotentOnDescription ==
    [][/\ \A s \in 1..MaxSyncs :
             UpdatedStep(s)
                => LET req == syncs[s]
                       before == Or(events[req.event_id].description, <<>>)
                       after == events'[req.event_id].description
                       snippet == Snippet(meetings[req.m])
                   IN  /\ Occurrences(after, snippet) = 1
                       /\ (before = req.existing_desc /\ Contains(before, snippet))
                             => after = before
       /\ events' # events
             => \A e \in DOMAIN events', m \in DOMAIN meetings' :
                   Occurrences(Or(events'[e].description, <<>>),
                               Snippet(meetings'[m])) <= 1]_vars

\* A second sync of meeting 1 to the existing event, after the first one was
\* committed: it found the snippet in the description it fetched and holds
\* that description, unchanged, for its update.
C10_Witness ==
    /\ meetings[1].calendar_event_id = ExistingEvent
    /\ Occurrences(events[ExistingEvent].description, Snippet(meetings[1])) = 1
    /\ \E s \in 1..MaxSyncs :
          /\ syncs[s].pc = "update"
          /\ syncs[s].m = 1
          /\ syncs[s].event_id = ExistingEvent
          /\ Contains(syncs[s].existing_desc, Snippet(meetings[1]))
          /\ syncs[s].ev.description = events[ExistingEvent].description
          /\ Prose \o <<"\n", "\n", "---", "\n">> \o Snippet(meetings[1])
                = events[ExistingEvent].description

\* C11: a sync whose payload carries no event id, for a meeting that an
\* earlier sync already linked to the event it created, creates no further
\* event in the calendar.
C11_NoDuplicateEvent ==
    [][\A s \in 1..MaxSyncs :
          (/\ syncs[s].pc = "insert"
           /\ syncs'[s].pc = "done"
           /\ ~Truthy(syncs[s].payload.event_id)
           /\ meetings[syncs[s].m].calendar_event_id \in Inserted)
             => DOMAIN events' = DOMAIN events]_vars

\* The payload of a sync request names neither a start nor an end time.
OmitsTimes(payload) == ~Truthy(payload.start_time) /\ ~Truthy(payload.end_time)

\* The step in which worker s gets the answer of a successful update or insert.
CommitStep(s) ==
    /\ syncs[s].pc \in {"update", "insert"}
    /\ syncs'[s].pc = "done"
    /\ resp'.status = 200

\* The step in which worker s has resolved the times of its request.
ResolveStep(s) ==
    /\ syncs[s].pc = "idle"
    /\ syncs'[s].pc \in {"get", "insert"}

\* C12 as stated: a sync that omits both times persists, whatever the meeting
\* held, an end time one hour after the start time it persists, when that
\* start parses as a timestamp.
C12_Original ==
    [][\A s \in 1..MaxSyncs :
          (CommitStep(s) /\ OmitsTimes(syncs[s].payload))
             => LET row == meetings'[syncs[s].m]
                IN  ParsesIso(row.start_time)
                       => row.end_time = IsoFormat(FromIsoFormat(row.start_time) + 1)]_vars

\* C12: a sync that omits both times resolves the meeting's stored end time
\* when the row holds one, and otherwise an end one hour after the resolved
\* start when that start parses as a timestamp (the start itself when it does
\* not); a successful sync persists the start and the end it resolved.
C12_EndAfterStoredEnd ==
    [][\A s \in 1..MaxSyncs :
          /\ (ResolveStep(s) /\ OmitsTimes(syncs'[s].payload))
                => LET row == meetings[syncs'[s].m]
                       start_iso == syncs'[s].start_iso
                       end_iso == syncs'[s].end_iso
                   IN  /\ start_iso = Or(row.start_time, CreatedIso(row))
                       /\ Truthy(row.end_time) => end_iso = row.end_time
                       /\ (~Truthy(row.end_time) /\ ParsesIso(start_iso))
                             => end_iso = IsoFormat(FromIsoFormat(start_iso) + 1)
                       /\ (~Truthy(row.end_time) /\ ~ParsesIso(start_iso))
                             => end_iso = start_iso
          /\ CommitStep(s)
                => /\ meetings'[syncs[s].m].start_time = syncs[s].start_iso
                   /\ meetings'[syncs[s].m].end_time = syncs[s].end_iso]_vars

\* The meeting without stored times after a successful sync that omitted
\* both: it starts when it was created and ends one hour later.
C12_Witness ==
    /\ Truthy(meetings[1].calendar_event_id)
    /\ meetings[1].start_time = CreatedIso(meetings[1])
    /\ meetings[1].end_time = IsoFormat(meetings[1].created_at + 1)
    /\ \E s \in 1..MaxSyncs : syncs[s].pc = "done"

\* The step in which the request of worker s ends, after a call to the
\* calendar.
SyncEnded(s) ==
    /\ syncs[s].pc \in {"get", "update", "insert"}
    /\ syncs'[s].pc = "done"

\* The row of the request's meeting keeps its event id and its times.
LinkUnchanged(s) ==
    LET before == meetings[syncs[s].m]
        after == meetings'[syncs[s].m]
    IN  /\ after.calendar_event_id = before.calendar_event_id
        /\ after.start_time = before.start_time
        /\ after.end_time = before.end_time

\* C13 as stated: a request whose fetch, update or create call raised, or
\* whose update or create answer carried no event id, ends with an error and
\* leaves the meeting's event id and times as they were.
C13_Original ==
    [][\A s \in 1..MaxSyncs :
          (SyncEnded(s) /\ resp'.detail \in {"get_event", "update_event", "insert_event",
                                             "no_event_id", "payload_event_id"})
             => resp'.status >= 400 /\ LinkUnchanged(s)]_vars

\* C13: a request whose fetch, update or create call raised, or whose create
\* answer carried no event id, ends with a 400 or 500 and leaves every row
\* as it was; a request ends at its fetch only with an error, and one that
\* left the calendar as it was did not succeed; no request that ends with an
\* error changes a row.  An update answer without an event id is no error:
\* the request succeeds and links the meeting to the event id of its payload.
C13_SyncErrorsPropagate ==
    [][\A s \in 1..MaxSyncs :
          SyncEnded(s)
             => /\ resp'.op = "sync" /\ resp'.m = syncs[s].m
                /\ resp'.detail \in {"get_event", "update_event", "insert_event", "no_event_id"}
                      => /\ resp'.status \in {400, 500}
                         /\ meetings' = meetings
                         /\ LinkUnchanged(s)
                /\ syncs[s].pc = "get" => resp'.status = 400
                /\ events' = events /\ syncs[s].pc = "insert" => resp'.status = 500
                /\ resp'.status # 200 => meetings' = meetings
                /\ resp'.detail = "payload_event_id"
                      => /\ syncs[s].pc = "update"
                         /\ resp'.status = 200
                         /\ meetings'[syncs[s].m].calendar_event_id
                               = syncs[s].payload.event_id]_vars

\* A request whose create call stored an event and answered without an id:
\* it ended with a 500 and every row is as it was stored.
C13_Witness ==
    /\ resp.op = "sync"
    /\ resp.status = 500
    /\ resp.detail = "no_event_id"
    /\ Inserted # {}
    /\ meetings = CalTable
    /\ \E s \in 1..MaxSyncs : syncs[s].pc = "done"

\* The caller of a request with this Authorization header is the owner of
\* meeting m.
CallerOwns(authorization, m) ==
    CurrentUser(authorization) # Unauthorized /\ Owned(m, CurrentUser(authorization))

\* C14: whatever header a request carries, a read of a meeting or a download
\* of its audio that is answered with a 200, and an edit or a deletion that
\* changes a row or removes a file, is a request of the meeting's owner.
C14_NoCrossOwnerAccess ==
    [][\A a \in SyncAuth, m \in DOMAIN CalTable :
          /\ (GetMeeting(a, m) /\ resp'.status = 200) => CallerOwns(a, m)
          /\ (GetAudio(a, m) /\ resp'.status = 200) => CallerOwns(a, m)
          /\ (\E p \in MetadataPayloads :
                 UpdateMetadata(a, m, p) /\ (resp'.status = 200 \/ meetings' # meetings))
                => CallerOwns(a, m)
          /\ (\E removed \in BOOLEAN :
                 /\ DeleteMeeting(a, m, removed)
                 /\ (resp'.status = 200 \/ meetings' # meetings \/ audio' # audio))
                => CallerOwns(a, m)]_vars

------------------------------------------------------------------------------
(* Properties of Q&A, topics and smart summaries, checked under SpecOnDemand *)

\* No row of the table belongs to the caller with this Authorization header.
OwnsNothing(authorization) ==
    /\ CurrentUser(authorization) # Unauthorized
    /\ \A i \in DOMAIN meetings : meetings[i].owner # CurrentUser(authorization)

\* C15: a Q&A request with a question that is not blank, from a caller who
\* authenticates and owns no meeting, is answered at once with a 200, the
\* canned answer and no references; no call to ollama_chat is made or left
\* pending, whatever credential the request and the process hold.
C15_NoMeetingsCannedAnswer ==
    [][\A a \in OdAuth, k \in Keys, q \in Questions :
          (QAStart(a, k, q) /\ Strip(q) # <<>> /\ OwnsNothing(a))
             => /\ resp' = Response("qa", 0, 200, "no_meetings", 0, "none",
                                    [answer |-> <<"no meetings">>, references |-> <<>>])
                /\ od' = OdIdle]_vars

\* The canned answer, given while neither the process nor any request held a
\* credential and the other user owned a meeting.
C15_Witness ==
    /\ resp.op = "qa"
    /\ resp.status = 200
    /\ resp.detail = "no_meetings"
    /\ resp.calls = 0
    /\ resp.body.references = <<>>
    /\ defaultKey = None
    /\ OwnsNothing(<<"bearer", "t1">>)
    /\ meetings # <<>>

\* The ids that the reply names in entries of its references that are dicts.
NamedIds(text) ==
    {text.refs[j].meeting_id : j \in {i \in 1..Len(text.refs) : text.refs[i].dict}}

\* C16: when a Q&A request ends with a 200 after the model's reply, every
\* reference of the response is a row of the table, owned by the caller and
\* named in a dict entry of the reply's references; no meeting is referenced
\* twice; and every owned meeting the reply names is referenced.
C16_ReferencesOwnedAndDistinct ==
    [][\A reply \in ChatReplies(QaTexts) :
          (QAFinish(reply) /\ resp'.status = 200)
             => LET refs == resp'.body.references
                    user == CurrentUser(od.auth)
                    named == IF reply.text.json = "object" /\ reply.text.refsKind = "list"
                             THEN NamedIds(reply.text) ELSE {}
                IN  /\ \A k \in 1..Len(refs) :
                          /\ refs[k] \in DOMAIN meetings
                          /\ meetings[refs[k]].owner = user
                          /\ refs[k] \in named
                    /\ \A k, l \in 1..Len(refs) : refs[k] = refs[l] => k = l
                    /\ \A i \in named :
                          (i \in DOMAIN meetings /\ meetings[i].owner = user)
                             => \E k \in 1..Len(refs) : refs[k] = i]_vars

\* The answer to a reply that named meeting 1 twice, meeting 2 and an entry
\* that is no dict, for the owner of meeting 1 but not of meeting 2: one
\* reference, to meeting 1.
C16_Witness ==
    /\ resp.op = "qa"
    /\ resp.status = 200
    /\ resp.detail = ""
    /\ Len(meetings) >= 2
    /\ meetings[1].owner = "u1"
    /\ meetings[2].owner = "u2"
    /\ resp.body.references = <<1>>

\* C17: whatever text ollama_chat returns to a Q&A request, the request ends
\* with a 200; when the text holds no JSON object the answer is the raw text
\* and the reference list is empty.
C17_QaToleratesMalformedOutput ==
    [][\A reply \in ChatReplies(QaTexts) :
          (QAFinish(reply) /\ resp'.chat = "ok")
             => /\ resp'.status = 200
                /\ reply.text.json # "object"
                      => resp'.body = [answer |-> reply.text, references |-> <<>>]]_vars

\* The name of a cluster is a string that is not blank.
NamedCluster(c) == c.dict /\ c.name # ANumber /\ Truthy(c.name) /\ Strip(c.name) # <<>>

\* The clusters of a reply that carry a non-blank name, in order, with
\* their meeting ids as given.
RECURSIVE NamedClusters(_)
NamedClusters(cs) ==
    IF cs = <<>> THEN <<>>
    ELSE (IF NamedCluster(Head(cs))
          THEN <<[name |-> Strip(Head(cs).name), meeting_ids |-> Head(cs).meeting_ids]>>
          ELSE <<>>) \o NamedClusters(Tail(cs))

\* The reply holds a JSON object whose clusters value is a list.
HasClusterList(reply) ==
    reply.kind = "content" /\ reply.text.json = "object" /\ reply.text.clustersKind = "list"

NamesAreStrings(cs) == \A k \in 1..Len(cs) : cs[k].dict => cs[k].name # ANumber

C19_SmartSummaryNeedsContent ==
    [][/\ \A a \in OdAuth, k \in Keys, m \in 1..MaxRows :
             (/\ SmartSummaryStart(a, k, m)
              /\ CallerOwns(a, m)
              /\ ~Truthy(meetings[m].transcript)
              /\ ~Truthy(meetings[m].summary))
                => /\ resp' = Response("smart", m, 400, "no_content", 0, "none", NoBody)
                   /\ od' = OdIdle
       /\ \A reply \in ChatReplies(SummaryTexts \cup TranscriptTexts) :
             (SmartSummaryFinish(reply) /\ resp'.chat = "ok")
                => /\ Truthy(meetings[od.m].transcript) \/ Truthy(meetings[od.m].summary)
                   /\ resp'.status = 200
                   /\ resp'.m = od.m
                   /\ resp'.body = reply.text]_vars

\* A smart-summary request refused with a 400 and no chat call, for a row
\* without transcript and summary.
C19_Witness ==
    /\ resp.op = "smart"
    /\ resp.status = 400
    /\ resp.calls = 0
    /\ resp.m \in DOMAIN meetings
    /\ meetings[resp.m].transcript = <<>>
    /\ meetings[resp.m].summary = None
    /\ od = OdIdle

------------------------------------------------------------------------------
(* Properties of credential resolution, checked under SpecKeys *)

\* A credential is usable when it is a text that is not blank.
Usable(k) == Truthy(k) /\ Strip(k) # <<>>

\* The result of a gateway call that raised NoCredential without calling out.
NoCredential(r) == r.exc = "HTTPException" /\ r.status = 400 /\ ~r.sent

\* C20: a call of either gateway ends with NoCredential, and without an
\* outbound call, exactly when neither the per-call credential nor the
\* process-wide one is usable.
C20_CredentialOrder ==
    xpc \in {"chat", "transcribe"}
       => /\ NoCredential(xres) <=> (~Usable(xkey) /\ ~Usable(defaultKey))
          /\ xres.sent <=> (Usable(xkey) \/ Usable(defaultKey))

------------------------------------------------------------------------------
(* Properties of the stages of ingestion, checked under Spec *)

\* C21: the handler of an upload is past asyncio.gather, persisting or
\* done, only when both the summary task and the extractor task have
\* settled.
C21_JoinBeforePersist ==
    ing.pc \in {"persist", "done"} => TasksSettled

\* C22: the audio of an upload is stored before its transcription call; the
\* summary and extractor calls are issued, both at once, only by the step in
\* which the transcription call succeeds; a failed transcription call takes
\* the handler straight to persisting, with no chat call issued then or
\* later; and the row is written by the last step of the handler, after
\* which the request issues no call.
C22_StageOrder ==
    [][/\ ing'.pc = "transcribing" => ing'.id \in audio'
       /\ (ing'.chatCalls # 0 \/ ing'.sumSt # "none" \/ ing'.extSt # "none")
             => ing'.trans = "ok"
       /\ (ing.pc = "transcribing" /\ ing'.pc # "transcribing")
             => \/ /\ ing'.trans = "ok"
                   /\ ing'.pc = "gather"
                   /\ ing'.chatCalls = 2
                \/ /\ ing'.trans \in {"HTTPException", "Exception"}
                   /\ ing'.pc = "persist"
                   /\ ing'.chatCalls = 0
       /\ ing'.chatCalls # ing.chatCalls
             => ing.pc \in {"transcribing", "idle", "done"}
       /\ meetings' # meetings /\ ing.pc # "idle" /\ ing.id \notin DOMAIN meetings
             => ing.id \notin DOMAIN meetings' \/ (ing.pc = "persist" /\ ing'.pc = "done")
       /\ (ing.pc = "done" /\ ing'.id = ing.id)
             => ing'.pc = "done" /\ ing'.chatCalls = ing.chatCalls]_vars

\* An upload whose transcription call failed and whose row is stored: no
\* chat call was issued for it and neither task was ever started.
C22_Witness ==
    /\ ing.pc = "done"
    /\ ing.trans = "HTTPException"
    /\ ing.id \in DOMAIN meetings
    /\ ing.id \in audio
    /\ ing.chatCalls = 0
    /\ ing.sumSt = "none"
    /\ resp.op = "ingest"
    /\ resp.calls = 0

------------------------------------------------------------------------------
(* Properties of the times of a sync, checked under SpecTimes *)

\* The first of the three texts that is present and not empty.
FirstPresent(a, b, c) ==
    IF a # None /\ a # <<>> THEN a ELSE IF b # None /\ b # <<>> THEN b ELSE c

\* C23: a sync resolves its start as the payload's start time, else the
\* row's, else the row's creation time; its end as the payload's end time,
\* else the row's, else one hour after the resolved start, or the resolved
\* start itself when that is no timestamp.  A successful sync writes the
\* start and end it resolved to the event the meeting is then linked to,
\* and to the row.
C23_ResolvedTimesSentAndStored ==
    [][\A s \in 1..MaxSyncs :
          /\ ResolveStep(s)
                => LET row == meetings[syncs'[s].m]
                       payload == syncs'[s].payload
                       start == FirstPresent(payload.start_time, row.start_time,
                                             IsoFormat(row.created_at))
                       fallback == IF ParsesIso(start)
                                   THEN IsoFormat(FromIsoFormat(start) + 1)
                                   ELSE start
                   IN  /\ syncs'[s].start_iso = start
                       /\ syncs'[s].end_iso =
                             FirstPresent(payload.end_time, row.end_time, fallback)
          /\ CommitStep(s)
                => LET row == meetings'[syncs[s].m]
                   IN  /\ row.start_time = syncs[s].start_iso
                       /\ row.end_time = syncs[s].end_iso
                       /\ row.calendar_event_id \in DOMAIN events'
                       /\ events'[row.calendar_event_id].start = syncs[s].start_iso
                       /\ events'[row.calendar_event_id].end = syncs[s].end_iso]_vars

\* The meeting stored with a start and an end, after a sync to the existing
\* event that named a new start only: the explicit start and the stored end
\* are on the row and on the event.
C23_Witness ==
    /\ meetings[1].calendar_event_id = ExistingEvent
    /\ meetings[1].start_time = IsoFormat(2)
    /\ meetings[1].end_time = IsoFormat(5)
    /\ events[ExistingEvent].start = IsoFormat(2)
    /\ events[ExistingEvent].end = IsoFormat(5)

------------------------------------------------------------------------------
(* Properties of concurrent syncs, checked under SpecCal *)

\* C24: once the two meetings of the connected user are both linked to the
\* existing event, each by a successful sync, the description of the event
\* holds the snippets of both.
C24_BothSnippetsKept ==
    (/\ meetings[1].calendar_event_id = ExistingEvent
     /\ meetings[2].calendar_event_id = ExistingEvent)
       => /\ Contains(events[ExistingEvent].description, Snippet(meetings[1]))
          /\ Contains(events[ExistingEvent].description, Snippet(meetings[2]))

-----------------------------------------------------------------------------
(* Ingestion without authentication, checked under Spec *)

\* C26: an upload whose caller fails authentication has no side effects: its
\* audio file is not stored, no transcription or chat call is made for it and
\* no meeting is created.
C26_UnauthenticatedUploadNoEffects ==
    (ing.pc # "idle" /\ CurrentUser(ing.auth) = Unauthorized)
        => /\ ing.id \notin audio
           /\ ing.trans = "none"
           /\ ing.chatCalls = 0
           /\ ing.id \notin DOMAIN meetings

-----------------------------------------------------------------------------
(* Properties of re-extraction, checked under SpecReextract *)

\* The model output of the reply is text the extractor's try block fails on.
Unparseable(reply) == reply.kind = "content" /\ ParseItems(reply.text).raised

\* The step in which extract_action_items_endpoint resumes with the reply.
ReextractStep(reply) == ReextractFinish(reply) /\ od.m \in DOMAIN meetings

\* C27 as stated: a re-extraction whose model output cannot be parsed leaves
\* the stored action items of the meeting as they were.
C27_Original ==
    [][\A reply \in ChatReplies(ReextractSamples) :
          (ReextractStep(reply) /\ Unparseable(reply))
              => meetings'[od.m].action_items = meetings[od.m].action_items]_vars

\* C27, amended: a re-extraction keeps the stored action items when the chat
\* call fails; when the model output cannot be parsed it replaces them by the
\* empty list, and otherwise by the list that was extracted.  Nothing else of
\* the row changes.
C27_ReextractionReplacesItems ==
    [][\A reply \in ChatReplies(ReextractSamples) :
          ReextractStep(reply) =>
              LET chat == ollama_chat(od.key, reply)
                  parsed == ParseItems(reply.text)
              IN  /\ chat.exc # "none" => meetings' = meetings
                  /\ (chat.exc = "none" /\ Unparseable(reply))
                        => meetings'[od.m].action_items = <<>>
                  /\ (chat.exc = "none" /\ ~Unparseable(reply))
                        => meetings'[od.m].action_items = DumpItems(parsed.items)
                  /\ [meetings' EXCEPT ![od.m].action_items = <<>>]
                        = [meetings EXCEPT ![od.m].action_items = <<>>]]_vars

\* A re-extraction has answered 200 and left the meeting, which held an item
\* before every request, without items.
C27_Witness ==
    /\ resp.op = "reextract" /\ resp.status = 200 /\ resp.chat = "ok"
    /\ HasTranscript(meetings[1].transcript)
    /\ meetings[1].action_items = <<>>

-----------------------------------------------------------------------------
(* Properties of folders, checked under SpecFolders *)

\* C25: the folder reference of every stored meeting is absent or names an
\* existing folder owned by the meeting's owner, whatever uploads, folder
\* assignments and folder deletions came before.
C25_FolderReferenceValid ==
    \A m \in DOMAIN meetings :
        \/ meetings[m].folder_id = None
        \/ OwnedFolder(meetings[m].folder_id, meetings[m].owner)

-----------------------------------------------------------------------------
(* Properties of the stored and the sent time bounds, checked under SpecEdits *)

\* Both texts are timestamps and the second is earlier than the first.
EndsBeforeStart(start, end) ==
    ParsesIso(start) /\ ParsesIso(end) /\ FromIsoFormat(end) < FromIsoFormat(start)

\* C28: after any calendar syncs and metadata edits, no meeting whose two
\* time bounds are timestamps ends before it starts, and neither does an
\* event of the external calendar.
C28_EndNotBeforeStart ==
    /\ \A m \in DOMAIN meetings :
          ~EndsBeforeStart(meetings[m].start_time, meetings[m].end_time)
    /\ \A e \in DOMAIN events :
          ~EndsBeforeStart(events[e].start, events[e].end)

====
